---- MODULE Spec2Model ----
(***************************************************************************)
(* Clearance-document ("pedimento") lifecycle of pedimiento_cumplimiento:  *)
(* purchase.order.button_confirm (create-or-reuse of a stock.landed.cost), *)
(* the stock.picking attach/detach hooks, purchase.order /                 *)
(* stock.landed.cost action_revert_pedimento and                           *)
(* action_validate_pedimentos_bulk.                                        *)
(*                                                                         *)
(* Records are kept in sequences; a record's id is its index.  0 is the    *)
(* empty many2one (False), "" the empty Char (False).  The inventory,      *)
(* costing and accounting engines are outside the module: what they answer *)
(* is an input of the action that calls them.                              *)
(***************************************************************************)
EXTENDS Integers, Sequences, FiniteSets, TLC

\* ---- bounds of the model
NumOrders == 2
MaxDocs == 2
MaxPickings == 2
MaxReturns == 1
\* the returns a database holds where reverts are tried again
MaxRetryReturns == 2
MaxMoves == 1
MaxQty == 1

Orders == 1..NumOrders
Partners == {"p1", "p2"}
\* well-formed customs numbers (the format constraint is modelled separately)
Numbers == {"n1", "n2"}

\* last: the outcome of the last operation of the family under observation
\* (watch); both only record, no handler reads them.
\* form: a customs number typed into a form and what the constraint said of it
\* txn: per order, the confirmation in flight in a transaction of its own
\* mrp: the manufacturing side: the allowed-editors parameter, the session of
\*      the caller, the stock moves and what the last create or write answered
\* pos_session: the point-of-sale side: the return receipts, the cash moves, the lines
\*      of a ticket and what the last call answered
VARIABLES orders, docs, pickings, returns, last, watch, form, txn, mrp, pos_session

vars == <<orders, docs, pickings, returns, last, watch, form, txn, mrp, pos_session>>

\* the database the handlers read and write, as one value
Db == [orders |-> orders, docs |-> docs, pickings |-> pickings, returns |-> returns]

\* ---- recordsets -------------------------------------------------------

Min(S) == CHOOSE x \in S : \A y \in S : x <= y

Max(S) == CHOOSE x \in S : \A y \in S : x >= y

\* a recordset in iteration order: the set S as an ascending sequence
RECURSIVE SetToSeq(_)
SetToSeq(S) == IF S = {} THEN <<>> ELSE <<Min(S)>> \o SetToSeq(S \ {Min(S)})

Range(q) == {q[i] : i \in 1..Len(q)}

\* sequences of distinct elements of S, of length 1..n
DistinctSeqs(S, n) ==
    {q \in UNION {[1..k -> S] : k \in 1..n} : \A i, j \in 1..Len(q) : i # j => q[i] # q[j]}

\* purchase.order.picking_ids: the pickings whose moves come from the order's lines
OrderPickings(db, o) == {i \in 1..Len(db.pickings) : db.pickings[i].order = o}

\* StockLandedCost.search([(number, =, n), (state, =, st)], limit=1); the record
\* returned among several matches depends on the model's ordering: srch
SearchDocSet(db, n, st) ==
    {d \in 1..Len(db.docs) : db.docs[d].number = n /\ db.docs[d].state = st}

\* the search that never finds a draft pedimento
SearchDoc_MissesDrafts(db, n, st, srch) ==
    LET S == {d \in 1..Len(db.docs) :
                 db.docs[d].number = n /\ db.docs[d].state = st /\ st # "draft"}
    IN  IF S = {} THEN 0 ELSE IF srch = "first" THEN Min(S) ELSE Max(S)

SearchDoc(db, n, st, srch) ==
    LET S == SearchDocSet(db, n, st)
    IN  IF S = {} THEN 0 ELSE IF srch = "first" THEN Min(S) ELSE Max(S)

\* draft_pedimento.picking_ids.mapped('partner_id')
DocPartners(db, d) == {db.pickings[p].partner : p \in db.docs[d].picking_ids}

\* pedimento.write({'picking_ids': [(4, id)]}) and [(3, id)]
DocAttach(db, d, p) ==
    [db EXCEPT !.docs[d].picking_ids = @ \cup {p}]

DocDetach(db, d, p) ==
    [db EXCEPT !.docs[d].picking_ids = @ \ {p}]

\* ---- stock.picking hooks ------------------------------------------------

\* _add_to_landed_cost that attaches to draft pedimentos only
AddToLandedCost_DraftOnly(db, p) ==
    LET o == db.pickings[p].order
        d == db.orders[o].pedimiento_id
    IN  IF d # 0 /\ db.docs[d].state = "draft" /\ p \notin db.docs[d].picking_ids
        THEN DocAttach(db, d, p) ELSE db

\* StockPicking._add_to_landed_cost, for a picking whose moves trace to order o
AddToLandedCost(db, p) ==
    LET o == db.pickings[p].order
        d == db.orders[o].pedimiento_id
    IN  IF d # 0 /\ p \notin db.docs[d].picking_ids THEN DocAttach(db, d, p) ELSE db

\* super().create(vals_list): the inventory engine's create
SuperPickingCreate(db, o) ==
    [db EXCEPT !.pickings = Append(@,
        [order |-> o, partner |-> db.orders[o].partner,
         state |-> "assigned", moves |-> <<>>])]

\* StockPicking.create: the inventory engine's create, then the attach hook
PickingCreate(db, o) ==
    AddToLandedCost(SuperPickingCreate(db, o), Len(db.pickings) + 1)

\* StockPicking._remove_from_landed_cost
RemoveFromLandedCost(db, p) ==
    LET o == db.pickings[p].order
        d == db.orders[o].pedimiento_id
    IN  IF d # 0 /\ db.docs[d].state = "draft" /\ p \in db.docs[d].picking_ids
        THEN DocDetach(db, d, p)
        ELSE db

\* StockPicking.action_cancel on a recordset: detach each, then the engine cancels
RECURSIVE RemoveAll(_, _)
RemoveAll(db, ps) ==
    IF ps = <<>> THEN db ELSE RemoveAll(RemoveFromLandedCost(db, Head(ps)), Tail(ps))

RECURSIVE CancelAll(_, _)
CancelAll(db, ps) ==
    IF ps = <<>> THEN db
    ELSE CancelAll([db EXCEPT !.pickings[Head(ps)].state = "cancel"], Tail(ps))

\* action_cancel without the removal from the landed cost
PickingActionCancel_NoDetach(db, ps) == CancelAll(db, ps)

PickingActionCancel(db, ps) == CancelAll(RemoveAll(db, ps), ps)

\* ---- purchase.order.button_confirm ----------------------------------------

\* ConfirmCheckOrder without the search for a validated pedimento
ConfirmCheckOrder_NoDoneSearch(db, o, srch) ==
    LET po == db.orders[o]
        draft == SearchDoc(db, po.number, "draft", srch)
    IN  IF po.number = "" \/ po.pedimiento_id # 0 THEN "ok"
        ELSE IF /\ draft # 0
                /\ DocPartners(db, draft) # {}
                /\ po.partner \notin DocPartners(db, draft)
             THEN "PartyMismatchError"
        ELSE "ok"

\* ConfirmCheckOrder without the comparison of partners
ConfirmCheckOrder_NoPartnerCheck(db, o, srch) ==
    LET po == db.orders[o]
    IN  IF po.number = "" \/ po.pedimiento_id # 0 THEN "ok"
        ELSE IF SearchDoc(db, po.number, "done", srch) # 0 THEN "ConflictError"
        ELSE "ok"

\* the validation pass on one order: "ok" or the error it raises
ConfirmCheckOrder(db, o, srch) ==
    LET po == db.orders[o]
        draft == SearchDoc(db, po.number, "draft", srch)
    IN  IF po.number = "" \/ po.pedimiento_id # 0 THEN "ok"
        ELSE IF SearchDoc(db, po.number, "done", srch) # 0 THEN "ConflictError"
        ELSE IF /\ draft # 0
                /\ DocPartners(db, draft) # {}
                /\ po.partner \notin DocPartners(db, draft)
             THEN "PartyMismatchError"
        ELSE "ok"

\* the validation pass over the batch: the first error raised, else "ok"
RECURSIVE ConfirmValidate(_, _, _)
ConfirmValidate(db, batch, srch) ==
    IF batch = <<>> THEN "ok"
    ELSE IF ConfirmCheckOrder(db, Head(batch), srch) # "ok"
         THEN ConfirmCheckOrder(db, Head(batch), srch)
         ELSE ConfirmValidate(db, Tail(batch), srch)

\* super().button_confirm(): a draft order becomes a purchase order and, when it
\* has stockable lines (o \in mk), the engine creates its receipt
RECURSIVE SuperButtonConfirm(_, _, _)
SuperButtonConfirm(db, batch, mk) ==
    IF batch = <<>> THEN db
    ELSE LET o == Head(batch)
             db1 == IF db.orders[o].state # "draft" THEN db
                    ELSE LET c == [db EXCEPT !.orders[o].state = "purchase"]
                         IN  IF o \in mk THEN PickingCreate(c, o) ELSE c
         IN  SuperButtonConfirm(db1, Tail(batch), mk)

\* PurchaseOrder._add_pickings_to_pedimiento
RECURSIVE AttachEach(_, _, _)
AttachEach(db, d, ps) ==
    IF ps = <<>> THEN db
    ELSE AttachEach(IF Head(ps) \notin db.docs[d].picking_ids
                    THEN DocAttach(db, d, Head(ps)) ELSE db, d, Tail(ps))

\* _add_pickings_to_pedimiento that replaces the receipt set by the receipts
\* of the order
AddPickingsToPedimiento_Replace(db, o) ==
    LET d == db.orders[o].pedimiento_id
    IN  IF d = 0 \/ OrderPickings(db, o) = {} THEN db
        ELSE [db EXCEPT !.docs[d].picking_ids = OrderPickings(db, o)]

AddPickingsToPedimiento(db, o) ==
    LET d == db.orders[o].pedimiento_id
    IN  IF d = 0 \/ OrderPickings(db, o) = {} THEN db
        ELSE AttachEach(db, d, SetToSeq(OrderPickings(db, o)))

\* ConfirmMutateOrder that never reuses a draft pedimento
ConfirmMutateOrder_NoReuse(db, o, srch) ==
    LET po == db.orders[o]
    IN  IF po.number = "" THEN db
        ELSE IF po.pedimiento_id # 0 THEN AddPickingsToPedimiento(db, o)
        ELSE [db EXCEPT
                 !.docs = Append(@, [number |-> po.number, state |-> "draft",
                                     picking_ids |-> OrderPickings(db, o)]),
                 !.orders[o].pedimiento_id = Len(db.docs) + 1]

\* ConfirmMutateOrder that reuses a draft pedimento whatever its number
ConfirmMutateOrder_AnyDraft(db, o, srch) ==
    LET po == db.orders[o]
        drafts == {d \in 1..Len(db.docs) : db.docs[d].state = "draft"}
        existing == IF drafts = {} THEN 0 ELSE Min(drafts)
    IN  IF po.number = "" THEN db
        ELSE IF po.pedimiento_id # 0 THEN AddPickingsToPedimiento(db, o)
        ELSE IF existing # 0
             THEN AddPickingsToPedimiento(
                      [db EXCEPT !.orders[o].pedimiento_id = existing], o)
        ELSE [db EXCEPT
                 !.docs = Append(@, [number |-> po.number, state |-> "draft",
                                     picking_ids |-> OrderPickings(db, o)]),
                 !.orders[o].pedimiento_id = Len(db.docs) + 1]

\* the mutation pass on one order
ConfirmMutateOrder(db, o, srch) ==
    LET po == db.orders[o]
        existing == SearchDoc(db, po.number, "draft", srch)
    IN  IF po.number = "" THEN db
        ELSE IF po.pedimiento_id # 0 THEN AddPickingsToPedimiento(db, o)
        ELSE IF existing # 0
             THEN AddPickingsToPedimiento(
                      [db EXCEPT !.orders[o].pedimiento_id = existing], o)
        ELSE [db EXCEPT
                 !.docs = Append(@, [number |-> po.number, state |-> "draft",
                                     picking_ids |-> OrderPickings(db, o)]),
                 !.orders[o].pedimiento_id = Len(db.docs) + 1]

RECURSIVE ConfirmMutate(_, _, _)
ConfirmMutate(db, batch, srch) ==
    IF batch = <<>> THEN db
    ELSE ConfirmMutate(ConfirmMutateOrder(db, Head(batch), srch), Tail(batch), srch)

\* button_confirm whose mutation pass runs whatever the validation pass found
ButtonConfirmDb_NoGate(db, batch, mk, srch) ==
    ConfirmMutate(SuperButtonConfirm(db, batch, mk), batch, srch)

\* button_confirm on the recordset batch: the database it leaves
ButtonConfirmDb(db, batch, mk, srch) ==
    IF ConfirmValidate(db, batch, srch) # "ok" THEN db
    ELSE ConfirmMutate(SuperButtonConfirm(db, batch, mk), batch, srch)

\* button_confirm on order o alone in a transaction that read the documents
\* before another transaction committed: existing is the draft pedimento its
\* search returned (0: none), whatever the database holds by now
ConfirmWithLookup(db, o, mk, existing) ==
    LET db1 == SuperButtonConfirm(db, <<o>>, mk)
        po == db1.orders[o]
    IN  IF po.number = "" THEN db1
        ELSE IF po.pedimiento_id # 0 THEN AddPickingsToPedimiento(db1, o)
        ELSE IF existing # 0
             THEN AddPickingsToPedimiento(
                      [db1 EXCEPT !.orders[o].pedimiento_id = existing], o)
        ELSE [db1 EXCEPT
                 !.docs = Append(@, [number |-> po.number, state |-> "draft",
                                     picking_ids |-> OrderPickings(db1, o)]),
                 !.orders[o].pedimiento_id = Len(db1.docs) + 1]

\* ---- purchase.order.action_revert_pedimento ------------------------------

\* what the return wizard and the engine do for one done picking
ReturnOutcomes == {"ok", "create_fails", "validate_fails"}

\* the moves of a picking that can be returned
ReturnableMoves(pk) ==
    {i \in 1..Len(pk.moves) : ~pk.moves[i].scrapped /\ pk.moves[i].quantity > 0}

\* _check_can_revert_pedimento that wants more in stock than was moved
CheckCanRevert_AtMost(db, o, inp) ==
    IF o \in inp.paid THEN "PaidInvoiceError"
    ELSE IF o \in inp.posted THEN "PostedInvoiceError"
    ELSE IF \E p \in OrderPickings(db, o) :
                /\ db.pickings[p].state = "done"
                /\ \E i \in 1..Len(db.pickings[p].moves) :
                       inp.avail <= db.pickings[p].moves[i].quantity
         THEN "InsufficientStockError"
    ELSE "ok"

\* PurchaseOrder._check_can_revert_pedimento: "ok" or the error it raises.
\* inp.paid / inp.posted: the orders with a paid / a posted unpaid invoice;
\* inp.avail: sum of the quants at the moves' destination location
CheckCanRevert(db, o, inp) ==
    IF o \in inp.paid THEN "PaidInvoiceError"
    ELSE IF o \in inp.posted THEN "PostedInvoiceError"
    ELSE IF \E p \in OrderPickings(db, o) :
                /\ db.pickings[p].state = "done"
                /\ \E i \in 1..Len(db.pickings[p].moves) :
                       inp.avail < db.pickings[p].moves[i].quantity
         THEN "InsufficientStockError"
    ELSE "ok"

\* _create_return_for_picking that makes no return of a picking that has a
\* completed return
CreateReturnForPicking_Guarded(db, p, outcome) ==
    LET pk == db.pickings[p]
        rid == Len(db.returns) + 1
        lines == [i \in ReturnableMoves(pk) |-> pk.moves[i].quantity]
        made(st) == [db EXCEPT !.returns = Append(@,
                        [origin |-> p, state |-> st, lines |-> lines])]
    IN  IF pk.state # "done" THEN [db |-> db, ret |-> 0, note |-> FALSE]
        ELSE IF ReturnableMoves(pk) = {} THEN [db |-> db, ret |-> 0, note |-> FALSE]
        ELSE IF \E r \in 1..Len(db.returns) :
                    db.returns[r].origin = p /\ db.returns[r].state = "done"
             THEN [db |-> db, ret |-> 0, note |-> FALSE]
        ELSE IF outcome = "create_fails" THEN [db |-> db, ret |-> 0, note |-> TRUE]
        ELSE IF outcome = "validate_fails"
             THEN [db |-> made("assigned"), ret |-> 0, note |-> TRUE]
        ELSE [db |-> made("done"), ret |-> rid, note |-> FALSE]

\* PurchaseOrder._create_return_for_picking: the database it leaves, the return
\* picking it hands back (0 for False) and whether it posted a failure note
CreateReturnForPicking(db, p, outcome) ==
    LET pk == db.pickings[p]
        rid == Len(db.returns) + 1
        lines == [i \in ReturnableMoves(pk) |-> pk.moves[i].quantity]
        made(st) == [db EXCEPT !.returns = Append(@,
                        [origin |-> p, state |-> st, lines |-> lines])]
    IN  IF pk.state # "done" THEN [db |-> db, ret |-> 0, note |-> FALSE]
        ELSE IF ReturnableMoves(pk) = {} THEN [db |-> db, ret |-> 0, note |-> FALSE]
        ELSE IF outcome = "create_fails" THEN [db |-> db, ret |-> 0, note |-> TRUE]
        ELSE IF outcome = "validate_fails"
             THEN [db |-> made("assigned"), ret |-> 0, note |-> TRUE]
        ELSE [db |-> made("done"), ret |-> rid, note |-> FALSE]

\* DetachReturned that leaves the picking on the pedimento
DetachReturned_Never(db, d, p, ret) == db

\* the explicit removal of a returned picking from the pedimento
DetachReturned(db, d, p, ret) ==
    IF ret # 0 /\ p \in db.docs[d].picking_ids THEN DocDetach(db, d, p) ELSE db

\* the loop over done_pickings that ends at the first return that fails
RECURSIVE ReturnLoop_AbortsOnFailure(_, _, _, _)
ReturnLoop_AbortsOnFailure(acc, ps, d, outc) ==
    IF ps = <<>> \/ acc.noted # {} THEN acc
    ELSE LET p == Head(ps)
             r == CreateReturnForPicking(acc.db, p, outc[p])
         IN  ReturnLoop_AbortsOnFailure(
                 [db |-> DetachReturned(r.db, d, p, r.ret),
                  returned |-> IF r.ret # 0 THEN acc.returned \cup {r.ret}
                               ELSE acc.returned,
                  noted |-> IF r.note THEN acc.noted \cup {p} ELSE acc.noted],
                 Tail(ps), d, outc)

\* the loop over done_pickings: the return of each, then its removal
RECURSIVE ReturnLoop(_, _, _, _)
ReturnLoop(acc, ps, d, outc) ==
    IF ps = <<>> THEN acc
    ELSE LET p == Head(ps)
             r == CreateReturnForPicking(acc.db, p, outc[p])
         IN  ReturnLoop([db |-> DetachReturned(r.db, d, p, r.ret),
                         returned |-> IF r.ret # 0 THEN acc.returned \cup {r.ret}
                                      ELSE acc.returned,
                         noted |-> IF r.note THEN acc.noted \cup {p} ELSE acc.noted],
                        Tail(ps), d, outc)

\* other_orders searched among the draft orders only
OtherOrders_DraftOnly(db, o) ==
    {x \in Orders : /\ x # o
                    /\ db.orders[x].state = "draft"
                    /\ db.orders[x].pedimiento_id = db.orders[o].pedimiento_id}

\* other_orders: the other orders that use the pedimento of order o
OtherOrders(db, o) ==
    {x \in Orders : x # o /\ db.orders[x].pedimiento_id = db.orders[o].pedimiento_id}

\* should_cancel_pedimento without the search for other orders
ShouldCancelPedimento_Always(db, o) == TRUE

ShouldCancelPedimento(db, o) == OtherOrders(db, o) = {}

\* CancelPedimento without the branch of the draft pedimento
CancelPedimento_DoneOnly(state, sh) ==
    IF state = "done" THEN (IF sh THEN "cancel" ELSE "blocked") ELSE state

\* CancelPedimento that cancels a done pedimento without sh_cancel
CancelPedimento_NoGate(state, sh) ==
    IF state \in {"done", "draft"} THEN "cancel" ELSE state

\* CancelPedimento whose sh_cancel resets a done pedimento to draft
CancelPedimento_ResetsToDraft(state, sh) ==
    IF state = "done" THEN (IF sh THEN "draft" ELSE "blocked")
    ELSE IF state = "draft" THEN "cancel"
    ELSE state

\* the cancellation of the pedimento: "blocked" when it is done and has no
\* sh_cancel, else the state it is left in
CancelPedimento(state, sh) ==
    IF state = "done" THEN (IF sh THEN "cancel" ELSE "blocked")
    ELSE IF state = "draft" THEN "cancel"
    ELSE state

\* action_revert_pedimento that cancels the open pickings before it checks
\* whether the order can be reverted
RevertOrder_CancelFirst(db, o, inp) ==
    LET d == db.orders[o].pedimiento_id
        non_done == {p \in OrderPickings(db, o) :
                        db.pickings[p].state \notin {"done", "cancel"}}
        db1 == PickingActionCancel(db, SetToSeq(non_done))
        done_pickings == {p \in OrderPickings(db, o) : db.pickings[p].state = "done"}
        lp == ReturnLoop([db |-> db1, returned |-> {}, noted |-> {}],
                         SetToSeq(done_pickings), d, inp.outc)
        st == IF ShouldCancelPedimento(db, o)
              THEN CancelPedimento(lp.db.docs[d].state, inp.sh)
              ELSE lp.db.docs[d].state
    IN  IF d = 0
        THEN [db |-> db, result |-> "NoPedimentoError", cancelled |-> {},
              returned |-> {}, noted |-> {}]
        ELSE IF CheckCanRevert(db, o, inp) # "ok"
        THEN [db |-> db1, result |-> CheckCanRevert(db, o, inp),
              cancelled |-> non_done, returned |-> {}, noted |-> {}]
        ELSE IF st = "blocked"
        THEN [db |-> IF inp.rollback THEN db ELSE lp.db,
              result |-> "CancellationBlockedError",
              cancelled |-> IF inp.rollback THEN {} ELSE non_done,
              returned |-> IF inp.rollback THEN {} ELSE lp.returned,
              noted |-> IF inp.rollback THEN {} ELSE lp.noted]
        ELSE [db |-> [lp.db EXCEPT !.docs[d].state = st,
                                   !.orders[o].pedimiento_id = 0],
              result |-> "ok", cancelled |-> non_done, returned |-> lp.returned,
              noted |-> lp.noted]

\* action_revert_pedimento that clears the reference of the order before it
\* tries to cancel the pedimento
RevertOrder_ClearsFirst(db, o, inp) ==
    LET d == db.orders[o].pedimiento_id
        fail(e) == [db |-> db, result |-> e, cancelled |-> {}, returned |-> {},
                    noted |-> {}]
        done_pickings == {p \in OrderPickings(db, o) : db.pickings[p].state = "done"}
        non_done == {p \in OrderPickings(db, o) :
                        db.pickings[p].state \notin {"done", "cancel"}}
        lp == ReturnLoop([db |-> PickingActionCancel(db, SetToSeq(non_done)),
                          returned |-> {}, noted |-> {}],
                         SetToSeq(done_pickings), d, inp.outc)
        db3 == [lp.db EXCEPT !.orders[o].pedimiento_id = 0]
        st == IF ShouldCancelPedimento(db, o)
              THEN CancelPedimento(lp.db.docs[d].state, inp.sh)
              ELSE lp.db.docs[d].state
    IN  IF d = 0 THEN fail("NoPedimentoError")
        ELSE IF CheckCanRevert(db, o, inp) # "ok" THEN fail(CheckCanRevert(db, o, inp))
        ELSE IF st = "blocked"
        THEN IF inp.rollback THEN fail("CancellationBlockedError")
             ELSE [db |-> db3, result |-> "CancellationBlockedError",
                   cancelled |-> non_done, returned |-> lp.returned,
                   noted |-> lp.noted]
        ELSE [db |-> [db3 EXCEPT !.docs[d].state = st],
              result |-> "ok", cancelled |-> non_done, returned |-> lp.returned,
              noted |-> lp.noted]

\* action_revert_pedimento that cancels the open pickings of an order that
\* has no pedimento before it raises
RevertOrder_NoReferenceCheck(db, o, inp) ==
    LET d == db.orders[o].pedimiento_id
        fail(e) == [db |-> db, result |-> e, cancelled |-> {}, returned |-> {},
                    noted |-> {}]
        done_pickings == {p \in OrderPickings(db, o) : db.pickings[p].state = "done"}
        non_done == {p \in OrderPickings(db, o) :
                        db.pickings[p].state \notin {"done", "cancel"}}
        db1 == PickingActionCancel(db, SetToSeq(non_done))
    IN  IF d = 0
        THEN [db |-> db1, result |-> "NoPedimentoError", cancelled |-> non_done,
              returned |-> {}, noted |-> {}]
        ELSE IF CheckCanRevert(db, o, inp) # "ok" THEN fail(CheckCanRevert(db, o, inp))
        ELSE
        LET lp == ReturnLoop([db |-> db1, returned |-> {}, noted |-> {}],
                             SetToSeq(done_pickings), d, inp.outc)
            st == IF ShouldCancelPedimento(db, o)
                  THEN CancelPedimento(lp.db.docs[d].state, inp.sh)
                  ELSE lp.db.docs[d].state
        IN  IF st = "blocked"
            THEN IF inp.rollback THEN fail("CancellationBlockedError")
                 ELSE [db |-> lp.db, result |-> "CancellationBlockedError",
                       cancelled |-> non_done, returned |-> lp.returned,
                       noted |-> lp.noted]
            ELSE [db |-> [lp.db EXCEPT !.docs[d].state = st,
                                       !.orders[o].pedimiento_id = 0],
                  result |-> "ok", cancelled |-> non_done, returned |-> lp.returned,
                  noted |-> lp.noted]

\* action_revert_pedimento on order o.  inp.sh: pedimento has sh_cancel;
\* inp.outc: the outcome of each return; inp.rollback: whether the caller undoes
\* the work done before an error raised after the first mutation
RevertOrder(db, o, inp) ==
    LET d == db.orders[o].pedimiento_id
        fail(e) == [db |-> db, result |-> e, cancelled |-> {}, returned |-> {},
                    noted |-> {}]
    IN  IF d = 0 THEN fail("NoPedimentoError")
        ELSE IF CheckCanRevert(db, o, inp) # "ok" THEN fail(CheckCanRevert(db, o, inp))
        ELSE
        LET should_cancel == ShouldCancelPedimento(db, o)
            done_pickings == {p \in OrderPickings(db, o) : db.pickings[p].state = "done"}
            non_done == {p \in OrderPickings(db, o) :
                            db.pickings[p].state \notin {"done", "cancel"}}
            db1 == PickingActionCancel(db, SetToSeq(non_done))
            lp == ReturnLoop([db |-> db1, returned |-> {}, noted |-> {}],
                             SetToSeq(done_pickings), d, inp.outc)
            db2 == lp.db
            st == IF should_cancel THEN CancelPedimento(db2.docs[d].state, inp.sh)
                  ELSE db2.docs[d].state
        IN  IF st = "blocked"
            THEN IF inp.rollback THEN fail("CancellationBlockedError")
                 ELSE [db |-> db2, result |-> "CancellationBlockedError",
                       cancelled |-> non_done, returned |-> lp.returned,
                       noted |-> lp.noted]
            ELSE [db |-> [db2 EXCEPT !.docs[d].state = st,
                                     !.orders[o].pedimiento_id = 0],
                  result |-> "ok", cancelled |-> non_done, returned |-> lp.returned,
                  noted |-> lp.noted]

\* ---- stock.landed.cost -----------------------------------------------------

\* the constraint with the format check only
CheckCustomsNumber_FormatOnly(db, d) == TRUE

\* the uniqueness part of _check_l10n_mx_edi_customs_number, for a write that
\* makes d done: TRUE when the constraint lets the write through
CheckCustomsNumber(db, d) ==
    db.docs[d].number = "" \/
    ~\E e \in 1..Len(db.docs) :
        e # d /\ db.docs[e].number = db.docs[d].number /\ db.docs[e].state = "done"

\* button_validate: the costing engine (ok: it accepts the document), the write
\* of state done and the constraint on it
ButtonValidate(db, d, ok) ==
    IF db.docs[d].state = "draft" /\ ok /\ CheckCustomsNumber(db, d)
    THEN [db |-> [db EXCEPT !.docs[d].state = "done"], result |-> "ok"]
    ELSE [db |-> db, result |-> "ValidationFailure"]

\* StockLandedCost._clear_purchase_order_reference
ClearPurchaseOrderReference(db, d) ==
    [db EXCEPT !.orders = [o \in Orders |->
        IF db.orders[o].pedimiento_id = d
        THEN [db.orders[o] EXCEPT !.pedimiento_id = 0]
        ELSE db.orders[o]]]

\* action_landed_cost_cancel: the references are cleared, then the method of
\* sh_landed_cost_cancel leaves the document cancelled
ActionLandedCostCancel(db, d) ==
    [ClearPurchaseOrderReference(db, d) EXCEPT !.docs[d].state = "cancel"]

\* the loop of the revert of a document that ends after the first order
RevertLoop_FirstOnly(acc, pos, inp) ==
    IF pos = <<>> \/ acc.result # "ok" THEN acc
    ELSE LET r == RevertOrder(acc.db, Head(pos), inp)
         IN  [db |-> IF r.result # "ok" /\ inp.rollback THEN acc.db0 ELSE r.db,
              db0 |-> acc.db0,
              result |-> r.result,
              reverted |-> IF r.result = "ok" THEN Append(acc.reverted, Head(pos))
                           ELSE acc.reverted,
              returned |-> IF r.result # "ok" /\ inp.rollback THEN {}
                           ELSE acc.returned \cup r.returned]

\* StockLandedCost.action_revert_pedimento: revert the referencing orders in
\* search order pos; an error of one revert ends the loop
RECURSIVE RevertLoop(_, _, _)
RevertLoop(acc, pos, inp) ==
    IF pos = <<>> \/ acc.result # "ok" THEN acc
    ELSE LET r == RevertOrder(acc.db, Head(pos), inp)
         IN  RevertLoop([db |-> IF r.result # "ok" /\ inp.rollback THEN acc.db0 ELSE r.db,
                         db0 |-> acc.db0,
                         result |-> r.result,
                         reverted |-> IF r.result = "ok" THEN Append(acc.reverted, Head(pos))
                                      ELSE acc.reverted,
                         returned |-> IF r.result # "ok" /\ inp.rollback THEN {}
                                      ELSE acc.returned \cup r.returned],
                        Tail(pos), inp)

RevertDocument(db, d, pos, inp) ==
    IF pos = <<>>
    THEN [db |-> db, db0 |-> db, result |-> "NoOrdersError", reverted |-> <<>>,
          returned |-> {}]
    ELSE RevertLoop([db |-> db, db0 |-> db, result |-> "ok", reverted |-> <<>>,
                     returned |-> {}], pos, inp)

\* ---- purchase.order.action_validate_pedimentos_bulk -------------------------

\* per document: whether it has cost lines and what the costing engine does
BulkOutcomes == {"ok", "validate_fails", "costs_ok", "compute_fails", "costs_validate_fails"}

\* the four categories of the orders of the recordset sel
OrdersWithoutCustoms(db, sel) ==
    {o \in Range(sel) : db.orders[o].number = ""}

OrdersWithoutPedimento(db, sel) ==
    {o \in Range(sel) : db.orders[o].number # "" /\ db.orders[o].pedimiento_id = 0}

OrdersAlreadyValidated(db, sel) ==
    {o \in Range(sel) : /\ db.orders[o].pedimiento_id # 0
                        /\ db.docs[db.orders[o].pedimiento_id].state = "done"}

OrdersToValidate(db, sel) ==
    {o \in Range(sel) : /\ db.orders[o].pedimiento_id # 0
                        /\ db.docs[db.orders[o].pedimiento_id].state = "draft"}

\* the pedimento of every order to validate, one entry per order
RECURSIVE MappedPedimentos_NoDedup(_, _, _)
MappedPedimentos_NoDedup(db, sel, seen) ==
    IF sel = <<>> THEN <<>>
    ELSE LET d == db.orders[Head(sel)].pedimiento_id
         IN  IF d # 0 /\ db.docs[d].state = "draft"
             THEN <<d>> \o MappedPedimentos_NoDedup(db, Tail(sel), seen)
             ELSE MappedPedimentos_NoDedup(db, Tail(sel), seen)

\* orders_to_validate.mapped('pedimiento_id'): each document once, in order
RECURSIVE MappedPedimentos(_, _, _)
MappedPedimentos(db, sel, seen) ==
    IF sel = <<>> THEN <<>>
    ELSE LET d == db.orders[Head(sel)].pedimiento_id
         IN  IF d # 0 /\ db.docs[d].state = "draft" /\ d \notin seen
             THEN <<d>> \o MappedPedimentos(db, Tail(sel), seen \cup {d})
             ELSE MappedPedimentos(db, Tail(sel), seen)

\* the loop over pedimentos_to_validate that ends at the first error
RECURSIVE BulkLoop_AbortsOnError(_, _, _)
BulkLoop_AbortsOnError(acc, ds, vo) ==
    IF ds = <<>> \/ acc.errors # <<>> THEN acc
    ELSE LET d == Head(ds)
             v == ButtonValidate(acc.db, d, vo[d] \in {"ok", "costs_ok"})
             nxt ==
                 IF acc.db.docs[d].picking_ids = {} \/ vo[d] = "compute_fails"
                 THEN [acc EXCEPT !.errors = Append(@, d)]
                 ELSE [acc EXCEPT !.db = v.db,
                                  !.validated = IF v.result = "ok" THEN @ \cup {d} ELSE @,
                                  !.errors = IF v.result = "ok" THEN @ ELSE Append(@, d),
                                  !.attempted = Append(@, d)]
         IN  BulkLoop_AbortsOnError(nxt, Tail(ds), vo)

\* the loop over pedimentos_to_validate without the check for pickings
RECURSIVE BulkLoop_NoReceiptCheck(_, _, _)
BulkLoop_NoReceiptCheck(acc, ds, vo) ==
    IF ds = <<>> THEN acc
    ELSE LET d == Head(ds)
             costs == vo[d] \in {"costs_ok", "compute_fails", "costs_validate_fails"}
             v == ButtonValidate(acc.db, d, vo[d] \in {"ok", "costs_ok"})
             nxt ==
                 IF vo[d] = "compute_fails"
                 THEN [acc EXCEPT !.errors = Append(@, d), !.computed = Append(@, d)]
                 ELSE [db |-> v.db,
                       validated |-> IF v.result = "ok" THEN acc.validated \cup {d}
                                     ELSE acc.validated,
                       errors |-> IF v.result = "ok" THEN acc.errors
                                  ELSE Append(acc.errors, d),
                       computed |-> IF costs THEN Append(acc.computed, d)
                                    ELSE acc.computed,
                       attempted |-> Append(acc.attempted, d)]
         IN  BulkLoop_NoReceiptCheck(nxt, Tail(ds), vo)

\* the loop over pedimentos_to_validate
RECURSIVE BulkLoop(_, _, _)
BulkLoop(acc, ds, vo) ==
    IF ds = <<>> THEN acc
    ELSE LET d == Head(ds)
             costs == vo[d] \in {"costs_ok", "compute_fails", "costs_validate_fails"}
             v == ButtonValidate(acc.db, d, vo[d] \in {"ok", "costs_ok"})
             nxt ==
                 IF acc.db.docs[d].picking_ids = {}
                 THEN [acc EXCEPT !.errors = Append(@, d)]
                 ELSE IF vo[d] = "compute_fails"
                 THEN [acc EXCEPT !.errors = Append(@, d), !.computed = Append(@, d)]
                 ELSE [db |-> v.db,
                       validated |-> IF v.result = "ok" THEN acc.validated \cup {d}
                                     ELSE acc.validated,
                       errors |-> IF v.result = "ok" THEN acc.errors
                                  ELSE Append(acc.errors, d),
                       computed |-> IF costs THEN Append(acc.computed, d)
                                    ELSE acc.computed,
                       attempted |-> Append(acc.attempted, d)]
         IN  BulkLoop(nxt, Tail(ds), vo)

ValidateBulk(db, sel, vo) ==
    BulkLoop([db |-> db, validated |-> {}, errors |-> <<>>, computed |-> <<>>,
              attempted |-> <<>>],
             MappedPedimentos(db, sel, {}), vo)

\* the 'type' of the notification
BulkSeverity(validated, errors) ==
    IF validated # {} /\ errors = <<>> THEN "success"
    ELSE IF validated # {} \/ errors = <<>> THEN "warning"
    ELSE "danger"

\* ---- the format of a customs number ------------------------------------------

\* a value is a sequence of characters, each known by its class: "d" a digit
\* 0-9, "s" a space, "t" another whitespace character, "x" anything else
Chars == {"d", "s", "t", "x"}

\* size=21 of purchase.order.l10n_mx_edi_customs_number
NumberSize == 21

\* the digits of the four groups of CUSTOM_NUMBERS_PATTERN and the spaces
\* between two groups
GroupDigits == <<2, 2, 4, 7>>

GapSpaces == 2

Repeat(c, n) == [i \in 1..n |-> c]

\* CUSTOM_NUMBERS_PATTERN, character by character
RECURSIVE PatternFrom(_)
PatternFrom(g) ==
    IF g > Len(GroupDigits) THEN <<>>
    ELSE (IF g = 1 THEN <<>> ELSE Repeat("s", GapSpaces))
             \o Repeat("d", GroupDigits[g]) \o PatternFrom(g + 1)

CustomNumbersPattern == PatternFrom(1)

\* str.strip(): without the whitespace at both ends
RECURSIVE LStrip(_)
LStrip(v) == IF v # <<>> /\ Head(v) \in {"s", "t"} THEN LStrip(Tail(v)) ELSE v

RECURSIVE RStrip(_)
RStrip(v) ==
    IF v # <<>> /\ v[Len(v)] \in {"s", "t"} THEN RStrip(SubSeq(v, 1, Len(v) - 1)) ELSE v

Strip(v) == RStrip(LStrip(v))

\* CUSTOM_NUMBERS_PATTERN.match(v): the pattern matches at the start of v
PatternMatch(v) ==
    /\ Len(v) >= Len(CustomNumbersPattern)
    /\ \A i \in 1..Len(CustomNumbersPattern) : v[i] = CustomNumbersPattern[i]

\* the value a Char field of the given size keeps of what is written to it
Stored(v, size) == SubSeq(v, 1, Min({Len(v), size}))

\* PurchaseOrder._check_l10n_mx_edi_customs_number on a written value
OrderNumberCheck(v) ==
    IF Stored(v, NumberSize) = <<>> THEN "ok"
    ELSE IF PatternMatch(Strip(Stored(v, NumberSize))) THEN "ok"
    ELSE "FormatError"

\* the format part of StockLandedCost._check_l10n_mx_edi_customs_number
DocNumberCheck(v) ==
    IF v = <<>> THEN "ok"
    ELSE IF PatternMatch(Strip(v)) THEN "ok"
    ELSE "FormatError"

\* ---- the state machine -----------------------------------------------------

\* the moves a completed receipt can have (a done move moved something)
MoveKinds == [quantity : 1..MaxQty, scrapped : BOOLEAN]

MoveSeqs == UNION {[1..k -> MoveKinds] : k \in 1..MaxMoves}

Batches == DistinctSeqs(Orders, NumOrders)

NoLast ==
    [op |-> "init", result |-> "ok", batch |-> <<>>, order |-> 0, doc |-> 0,
     cancelled |-> {}, returned |-> {}, noted |-> {}, validated |-> {},
     errors |-> <<>>, sh |-> FALSE, created |-> 0]

TypeOK ==
    /\ orders \in [Orders -> [partner : Partners, number : Numbers \cup {""},
                              pedimiento_id : 0..MaxDocs, state : {"draft", "purchase"}]]
    /\ Len(docs) <= MaxDocs
    /\ Len(pickings) <= MaxPickings
    /\ Len(returns) <= MaxRetryReturns

\* the operation families whose outcome last can record; under "ops" it
\* records which operation ran, of whatever family, under "receipts" the
\* reverts and the creations of receipts
Families == {"confirm", "revert", "revert_doc", "validate", "format", "ops", "receipts",
             "mrp", "pos"}

\* the record of an operation of family f
Log(f, rec) ==
    IF watch = f \/ (watch = "receipts" /\ f \in {"revert", "receipt"}) THEN rec
    ELSE IF watch = "ops" THEN [NoLast EXCEPT !.op = rec.op]
    ELSE NoLast

\* no customs number is being typed
NoForm == [model |-> "none", value |-> <<>>, check |-> "none"]

\* the manufacturing side before anything happened: no parameter stored, no
\* shop-floor operator, no employee behind the user, no move
NoMrp ==
    [param |-> [isstr |-> FALSE, chars |-> <<>>],
     session |-> [employees_connected |-> {}, employee_id |-> 0, user_employee |-> 0],
     moves |-> <<>>, op |-> "none", result |-> "none"]

\* the point-of-sale side before anything happened
NoPos ==
    [pickings |-> <<>>, cash |-> <<>>, op |-> "none", result |-> "none",
     lines |-> <<>>, tickets |-> <<>>]

\* no confirmation is in flight
NoTxn == [o \in Orders |-> [phase |-> "idle", check |-> "ok", existing |-> 0]]

InitDb ==
    /\ orders \in [Orders -> [partner : Partners, number : Numbers \cup {""},
                              pedimiento_id : {0}, state : {"draft"}]]
    \* partners and numbers are interchangeable: order 1 fixes the first of each
    /\ orders[1].partner = "p1"
    /\ orders[1].number = "n1"
    /\ docs = <<>>
    /\ pickings = <<>>
    /\ returns = <<>>
    /\ last = NoLast
    /\ form = NoForm
    /\ txn = NoTxn
    /\ mrp = NoMrp
    /\ pos_session = NoPos

Init == InitDb /\ watch \in Families

\* the returns kept: one more where receipts are created after confirmation
ReturnsBound == IF watch = "receipts" THEN MaxRetryReturns ELSE MaxReturns

Fits(db) ==
    /\ Len(db.docs) <= MaxDocs
    /\ Len(db.pickings) <= MaxPickings
    /\ Len(db.returns) <= ReturnsBound

Install(db) ==
    /\ Fits(db)
    /\ orders' = db.orders
    /\ docs' = db.docs
    /\ pickings' = db.pickings
    /\ returns' = db.returns
    /\ watch' = watch
    /\ form' = form
    /\ txn' = txn
    /\ mrp' = mrp
    /\ pos_session' = pos_session

\* the orderings a search can return when several drafts carry one number
Searches ==
    IF \E d, e \in 1..Len(docs) :
           d # e /\ docs[d].number = docs[e].number
                 /\ docs[d].state = "draft" /\ docs[e].state = "draft"
    THEN {"first", "last"} ELSE {"first"}

\* confirmOrders
ButtonConfirm ==
    \E batch \in Batches, srch \in Searches :
    \E mk \in SUBSET {o \in Range(batch) : orders[o].state = "draft"} :
        LET db == ButtonConfirmDb(Db, batch, mk, srch)
        IN  /\ Install(db)
            /\ last' = Log("confirm",
                           [NoLast EXCEPT !.op = "confirm", !.batch = batch,
                                          !.result = ConfirmValidate(Db, batch, srch),
                                          !.created = Len(db.docs) - Len(docs)])

\* the done pickings of the orders os that have something to return
Returnable(os) ==
    {p \in 1..Len(pickings) : /\ pickings[p].order \in os
                              /\ pickings[p].state = "done"
                              /\ ReturnableMoves(pickings[p]) # {}}

\* the outcomes of the returns of the pickings ps (the others have none)
Outcomes(ps) ==
    {f \in [1..Len(pickings) -> ReturnOutcomes] :
        \A p \in 1..Len(pickings) : p \notin ps => f[p] = "ok"}

\* the answers of the accounting engine (paid, posted), of the inventory engine
\* (avail, outc) and of the capability lookup (sh) to a revert of the orders os
\* with pedimento d.  An answer that is never asked for is fixed.
RevertInputs(os, d) ==
    LET hasDone == \E p \in 1..Len(pickings) :
                       pickings[p].order \in os /\ pickings[p].state = "done"
        free == [paid : {{}}, posted : {{}},
                 avail : IF hasDone THEN 0..MaxQty ELSE {0},
                 sh : IF docs[d].state = "done" THEN BOOLEAN ELSE {FALSE},
                 outc : Outcomes(Returnable(os)),
                 rollback : IF docs[d].state = "done" THEN BOOLEAN ELSE {FALSE}]
        refused == [paid : SUBSET os, posted : SUBSET os, avail : {0}, sh : {FALSE},
                    outc : Outcomes({}), rollback : BOOLEAN]
    IN  free \cup {i \in refused : i.paid \cup i.posted # {}}

NoInput ==
    [paid |-> {}, posted |-> {}, avail |-> 0, sh |-> FALSE,
     outc |-> [p \in 1..Len(pickings) |-> "ok"], rollback |-> FALSE]

\* revertOrder
RevertPedimento ==
    \E o \in Orders :
    \E inp \in IF orders[o].pedimiento_id = 0 THEN {NoInput}
               ELSE RevertInputs({o}, orders[o].pedimiento_id) :
        LET r == RevertOrder(Db, o, inp)
        IN  /\ inp.rollback => r.result = "CancellationBlockedError"
            /\ Install(r.db)
            /\ last' = Log("revert", [NoLast EXCEPT !.op = "revert", !.order = o,
                                      !.doc = orders[o].pedimiento_id,
                                      !.result = r.result, !.cancelled = r.cancelled,
                                      !.returned = r.returned, !.noted = r.noted,
                                      !.sh = inp.sh])

\* revertDocument
RevertPedimentoDoc ==
    \E d \in 1..Len(docs) :
    LET refs == {o \in Orders : orders[o].pedimiento_id = d}
    IN  \E pos \in {q \in Batches \cup {<<>>} : Range(q) = refs} :
        \E inp \in IF refs = {} THEN {NoInput} ELSE RevertInputs(refs, d) :
        LET r == RevertDocument(Db, d, pos, inp)
        IN  /\ inp.rollback => (r.result # "ok" /\ Len(r.reverted) > 0)
            /\ Install(r.db)
            /\ last' = Log("revert_doc",
                            [NoLast EXCEPT !.op = "revert_doc", !.doc = d, !.batch = pos,
                                           !.result = r.result, !.returned = r.returned,
                                           !.sh = inp.sh])

\* validateMany
ValidatePedimentosBulk ==
    \E sel \in Batches :
    \E vo \in {f \in [1..Len(docs) -> BulkOutcomes] :
                  \A d \in 1..Len(docs) :
                      d \notin Range(MappedPedimentos(Db, sel, {})) => f[d] = "ok"} :
        LET r == ValidateBulk(Db, sel, vo)
        IN  /\ Install(r.db)
            /\ last' = Log("validate", [NoLast EXCEPT !.op = "validate_bulk", !.batch = sel,
                                      !.result = BulkSeverity(r.validated, r.errors),
                                      !.validated = r.validated, !.errors = r.errors])

\* validation of one document from its form
DocButtonValidate ==
    \E d \in 1..Len(docs), ok \in BOOLEAN :
        /\ docs[d].state = "draft"
        /\ Install(ButtonValidate(Db, d, ok).db)
        /\ last' = Log("validate", [NoLast EXCEPT !.op = "validate", !.doc = d,
                                  !.result = ButtonValidate(Db, d, ok).result])

\* a user creates a landed cost with customs number n from its own form
LandedCostCreate ==
    \E n \in {orders[o].number : o \in Orders} \ {""} :
        /\ Install([Db EXCEPT !.docs = Append(@, [number |-> n, state |-> "draft",
                                                  picking_ids |-> {}])])
        /\ last' = NoLast

\* the inventory engine completes a receipt
PickingDone ==
    \E p \in 1..Len(pickings), ms \in MoveSeqs :
        /\ pickings[p].state = "assigned"
        /\ pickings' = [pickings EXCEPT ![p].state = "done", ![p].moves = ms]
        /\ last' = NoLast
        /\ UNCHANGED <<orders, docs, returns, watch, form, txn, mrp, pos_session>>

\* a receipt is cancelled
PickingCancel ==
    \E p \in 1..Len(pickings) :
        /\ pickings[p].state = "assigned"
        /\ Install(PickingActionCancel(Db, <<p>>))
        /\ last' = NoLast

Next ==
    \/ ButtonConfirm
    \/ RevertPedimento
    \/ RevertPedimentoDoc
    \/ ValidatePedimentosBulk
    \/ DocButtonValidate
    \/ PickingDone
    \/ PickingCancel

Spec == Init /\ [][Next]_vars

InitConfirm == InitDb /\ watch = "confirm"

SpecConfirm == InitConfirm /\ [][Next]_vars

\* reverting never looks at partners or numbers: two orders of one partner
\* with one number share a pedimento, and each has it alone once the other left
InitRevert ==
    /\ InitDb /\ watch = "revert"
    /\ \A o \in Orders : orders[o].partner = "p1" /\ orders[o].number = "n1"

SpecRevert == InitRevert /\ [][Next]_vars

\* the reverts of documents recorded
InitRevertDoc ==
    /\ InitDb /\ watch = "revert_doc"
    /\ \A o \in Orders : orders[o].partner = "p1" /\ orders[o].number = "n1"

SpecRevertDoc == InitRevertDoc /\ [][Next]_vars

\* the inventory engine creates a further receipt for a confirmed order:
\* with its moves, which trace to the lines of the order, or without moves (the
\* hook then finds no order; the moves come later)
ReceiptCreate ==
    \E o \in Orders, traced \in BOOLEAN :
        /\ orders[o].state = "purchase"
        /\ Install(IF traced THEN PickingCreate(Db, o) ELSE SuperPickingCreate(Db, o))
        /\ last' = Log("receipt", [NoLast EXCEPT !.op = "receipt_create", !.order = o,
                                                 !.doc = orders[o].pedimiento_id,
                                                 !.result = IF traced THEN "ok"
                                                            ELSE "no_moves"])

\* the orders with the receipts that follow their first one; order 1 has a
\* customs number, the others have none and never get a pedimento
NextReceipts ==
    \/ ButtonConfirm
    \/ ReceiptCreate
    \/ PickingDone
    \/ PickingCancel
    \/ DocButtonValidate
    \/ RevertPedimento

InitReceipts ==
    /\ InitDb /\ watch = "receipts"
    /\ \A o \in Orders : orders[o].partner = "p1"
    /\ \A o \in Orders \ {1} : orders[o].number = ""

SpecReceipts == InitReceipts /\ [][NextReceipts]_vars

\* button_confirm of one unlinked order begins in its own transaction: the
\* validation pass and the search for a draft pedimento read the database
ConfirmStart ==
    \E o \in Orders, srch \in Searches :
        /\ txn[o].phase = "idle"
        /\ orders[o].state = "draft"
        /\ orders[o].pedimiento_id = 0
        /\ txn' = [txn EXCEPT ![o] =
                      [phase |-> "looked",
                       check |-> ConfirmCheckOrder(Db, o, srch),
                       existing |-> SearchDoc(Db, orders[o].number, "draft", srch)]]
        /\ last' = NoLast
        /\ UNCHANGED <<orders, docs, pickings, returns, watch, form, mrp, pos_session>>

\* the transaction goes on with what it read and commits, or has raised
ConfirmCommit ==
    \E o \in Orders, mk \in BOOLEAN :
        /\ txn[o].phase = "looked"
        /\ LET db == IF txn[o].check # "ok" THEN Db
                     ELSE ConfirmWithLookup(Db, o, IF mk THEN {o} ELSE {},
                                            txn[o].existing)
           IN  /\ Fits(db)
               /\ orders' = db.orders
               /\ docs' = db.docs
               /\ pickings' = db.pickings
               /\ returns' = db.returns
        /\ txn' = [txn EXCEPT ![o] = NoTxn[o]]
        /\ last' = NoLast
        /\ UNCHANGED <<watch, form, mrp, pos_session>>

\* confirmations one order at a time, each in a transaction of its own, that
\* may run side by side
NextRace ==
    \/ ConfirmStart
    \/ ConfirmCommit
    \/ PickingCancel
    \/ DocButtonValidate

InitRace == InitDb /\ watch = "confirm"

SpecRace == InitRace /\ [][NextRace]_vars

\* with landed costs created from their own form, next to those of the orders
\* (what a revert of a document does to the database, reverts of its orders do)
NextDocs ==
    \/ ButtonConfirm
    \/ RevertPedimento
    \/ ValidatePedimentosBulk
    \/ DocButtonValidate
    \/ PickingDone
    \/ PickingCancel
    \/ LandedCostCreate

InitValidate ==
    /\ InitDb /\ watch = "validate"
    /\ \A o \in Orders : orders[o].partner = "p1" /\ orders[o].number = "n1"

SpecValidate == InitValidate /\ [][NextDocs]_vars

\* a user changes the customs number of an order, to a well-formed number or to
\* nothing: the constraint lets both through
OrderWrite ==
    \E o \in Orders, n \in {orders[x].number : x \in Orders} \cup {"n1", ""} :
        /\ n # orders[o].number
        /\ Install([Db EXCEPT !.orders[o].number = n])
        /\ last' = Log("ops", [NoLast EXCEPT !.op = "write"])

\* a user cancels a landed cost from its form
LandedCostCancel ==
    \E d \in 1..Len(docs) :
        /\ docs[d].state # "cancel"
        /\ Install(ActionLandedCostCancel(Db, d))
        /\ last' = Log("ops", [NoLast EXCEPT !.op = "doc_cancel"])

\* the operations on orders and documents, each one known by its name
NextOps ==
    \/ ButtonConfirm
    \/ RevertPedimento
    \/ RevertPedimentoDoc
    \/ ValidatePedimentosBulk
    \/ OrderWrite
    \/ LandedCostCancel

InitOps ==
    /\ InitDb /\ watch = "ops"
    /\ \A o \in Orders : orders[o].partner = "p1" /\ orders[o].number = "n1"

SpecOps == InitOps /\ [][NextOps]_vars

\* the values typed: the well-formed number, what one character changed, added
\* or left out makes of it, and the values of at most MaxShort characters
MaxShort == 2
\* the employees of the manufacturing side, the moves kept, the moves one
\* create call brings, the quantities a move can carry
MaxEmployees == 2
MaxMrpMoves == 2
MaxValsList == 2
MaxMrpQty == 1
\* the point of sale: products, return receipts and cash moves kept, products
\* in one return, quantity and price of one of them
MaxProducts == 2
MaxPosPickings == 2
MaxCash == 2
MaxProductsData == 2
MaxPosQty == 1
\* a ticket: its lines, the quantities a line can carry (a refund line is
\* negative), the return receipts found, their moves and quantities
MaxLines == 3
MaxRefundQty == 1
MaxLineQty == 2
MaxReturnPickings == 1
MaxReturnMoves == 2
MaxReturnQty == 2

Replaced(v, i, c) == [v EXCEPT ![i] = c]

Inserted(v, i, c) == SubSeq(v, 1, i) \o <<c>> \o SubSeq(v, i + 1, Len(v))

Removed(v, i) == SubSeq(v, 1, i - 1) \o SubSeq(v, i + 1, Len(v))

TypedValues ==
    LET v == CustomNumbersPattern
    IN  {v} \cup {Replaced(v, i, c) : i \in 1..Len(v), c \in Chars}
            \cup {Inserted(v, i, c) : i \in 0..Len(v), c \in Chars}
            \cup {Removed(v, i) : i \in 1..Len(v)}
            \cup UNION {[1..k -> Chars] : k \in 0..MaxShort}

\* a customs number is written on an order: the constraint answers
OrderWriteNumber ==
    /\ form.model = "purchase.order"
    /\ form.check = "none"
    /\ form' = [form EXCEPT !.check = OrderNumberCheck(form.value)]
    /\ UNCHANGED <<orders, docs, pickings, returns, last, watch, txn, mrp, pos_session>>

\* a customs number is written on a landed cost: the constraint answers
DocWriteNumber ==
    /\ form.model = "stock.landed.cost"
    /\ form.check = "none"
    /\ form' = [form EXCEPT !.check = DocNumberCheck(form.value)]
    /\ UNCHANGED <<orders, docs, pickings, returns, last, watch, txn, mrp, pos_session>>

InitFormat ==
    /\ orders = [o \in Orders |-> [partner |-> "p1", number |-> "", pedimiento_id |-> 0,
                                    state |-> "draft"]]
    /\ docs = <<>>
    /\ pickings = <<>>
    /\ returns = <<>>
    /\ last = NoLast
    /\ watch = "format"
    /\ txn = NoTxn
    /\ mrp = NoMrp
    /\ pos_session = NoPos
    /\ form \in [model : {"purchase.order", "stock.landed.cost"}, value : TypedValues,
                  check : {"none"}]

NextFormat == OrderWriteNumber \/ DocWriteNumber

SpecFormat == InitFormat /\ [][NextFormat]_vars

\* ---- properties -------------------------------------------------------------

DocIds == 1..Len(docs)

\* the orders that reference document d
Refs(d) == {o \in Orders : orders[o].pedimiento_id = d}

\* the documents that carry number n, in any state
DocsOfNumber(n) == {d \in DocIds : docs[d].number = n}

\* another document with the number of d is done
DuplicateOfDone(d) ==
    \E e \in DocIds : e # d /\ docs[e].number = docs[d].number /\ docs[e].state = "done"

\* the errors of the revert preconditions
PreconditionErrors ==
    {"NoPedimentoError", "PaidInvoiceError", "PostedInvoiceError", "InsufficientStockError"}

AtMostOneDonePerNumber ==
    \A d, e \in DocIds :
        (d # e /\ docs[d].state = "done" /\ docs[e].state = "done")
            => docs[d].number # docs[e].number

ValidateRejectsDuplicate ==
    /\ (last'.op = "validate" /\ DuplicateOfDone(last'.doc))
           => (last'.result = "ValidationFailure" /\ docs'[last'.doc].state = "draft")
    /\ last'.op = "validate_bulk"
           => \A d \in DocIds :
                  (docs[d].state = "draft" /\ DuplicateOfDone(d))
                      => (docs'[d].state = "draft" /\ d \notin last'.validated)

C2_PartnerHomogeneity ==
    \A d \in DocIds :
        docs[d].state = "draft" =>
            /\ Cardinality(DocPartners(Db, d)) <= 1
            /\ (Cardinality(Refs(d)) > 1 /\ DocPartners(Db, d) # {})
                   => \A o \in Refs(d) : orders[o].partner \in DocPartners(Db, d)

\* exactly one document carries number n, it is draft, orders a and b reference
\* it and its receipts are those of a and b
SharedDraft(a, b, n) ==
    \E d \in DocIds :
        /\ DocsOfNumber(n) = {d}
        /\ docs[d].state = "draft"
        /\ orders[a].pedimiento_id = d
        /\ orders[b].pedimiento_id = d
        /\ docs[d].picking_ids = OrderPickings(Db, a) \cup OrderPickings(Db, b)

\* orders a and b can share: one number, one partner
Alike(a, b) ==
    /\ a # b
    /\ orders[a].number # ""
    /\ orders[a].number = orders[b].number
    /\ orders[a].partner = orders[b].partner

ConfirmTogether ==
    \A a, b \in Orders :
        (/\ last'.op = "confirm" /\ last'.batch = <<a, b>>
         /\ Alike(a, b)
         /\ orders[a].pedimiento_id = 0 /\ orders[b].pedimiento_id = 0
         /\ DocsOfNumber(orders[a].number) = {})
            => (last'.result = "ok" /\ SharedDraft(a, b, orders[a].number)')

ConfirmInTurn ==
    \A a, b \in Orders :
        (/\ last.op = "confirm" /\ last.batch = <<a>> /\ last.result = "ok"
         /\ last.created = 1
         /\ orders[a].pedimiento_id = Len(docs)
         /\ DocsOfNumber(orders[a].number) = {Len(docs)}
         /\ last'.op = "confirm" /\ last'.batch = <<b>>
         /\ Alike(a, b)
         /\ orders[b].pedimiento_id = 0)
            => (last'.result = "ok" /\ SharedDraft(a, b, orders[a].number)')

\* C3: two orders with one number and one partner, confirmed in one batch or in
\* two successive calls when no document has the number, share one draft
\* document whose receipts are those of both
C3_SharedDraft == [][ConfirmTogether /\ ConfirmInTurn]_vars

C3_Witness ==
    /\ last.op = "confirm"
    /\ last.result = "ok"
    /\ last.created = 1
    /\ Len(last.batch) = 2
    /\ Alike(last.batch[1], last.batch[2])
    /\ SharedDraft(last.batch[1], last.batch[2], orders[last.batch[1]].number)
    /\ OrderPickings(Db, last.batch[1]) # {}
    /\ OrderPickings(Db, last.batch[2]) # {}

\* order o is unlinked and a done document has its number
ConflictsWithDone(o) ==
    /\ orders[o].pedimiento_id = 0
    /\ orders[o].number # ""
    /\ \E d \in DocIds : docs[d].number = orders[o].number /\ docs[d].state = "done"

ConfirmOfValidatedNumber ==
    \A o \in Orders :
        (last'.op = "confirm" /\ o \in Range(last'.batch) /\ ConflictsWithDone(o))
            => /\ last'.result \in {"ConflictError", "PartyMismatchError"}
               /\ last'.batch = <<o>> => last'.result = "ConflictError"
               /\ Len(docs') = Len(docs)
               /\ orders'[o].pedimiento_id = 0

\* C4: the confirmation of an unlinked order whose number is that of a done
\* document fails with ConflictError, creates no document and leaves the order
\* without document
C4_Conflict == [][ConfirmOfValidatedNumber]_vars

C4_Witness ==
    /\ last.op = "confirm"
    /\ last.result = "ConflictError"
    /\ Len(last.batch) = 1
    /\ ConflictsWithDone(last.batch[1])

\* order o is unlinked, no done document has its number, and the draft
\* documents of its number have receipts, none of the partner of o
MismatchesDraft(o) ==
    /\ orders[o].pedimiento_id = 0
    /\ orders[o].number # ""
    /\ ~\E d \in DocIds : docs[d].number = orders[o].number /\ docs[d].state = "done"
    /\ \E d \in DocIds : docs[d].number = orders[o].number /\ docs[d].state = "draft"
    /\ \A d \in DocIds :
           (docs[d].number = orders[o].number /\ docs[d].state = "draft")
               => (DocPartners(Db, d) # {} /\ orders[o].partner \notin DocPartners(Db, d))

ConfirmOfForeignNumber ==
    \A o \in Orders :
        (last'.op = "confirm" /\ o \in Range(last'.batch) /\ MismatchesDraft(o))
            => /\ last'.result \in {"ConflictError", "PartyMismatchError"}
               /\ last'.batch = <<o>> => last'.result = "PartyMismatchError"
               /\ docs' = docs
               /\ orders'[o].pedimiento_id = 0

\* C5: the confirmation of an unlinked order whose number is that of a draft
\* document with receipts of other partners only fails with PartyMismatchError;
\* the order stays without document and the receipt sets stay as they are
C5_PartyMismatch == [][ConfirmOfForeignNumber]_vars

C5_Witness ==
    /\ last.op = "confirm"
    /\ last.result = "PartyMismatchError"
    /\ Len(last.batch) = 1
    /\ MismatchesDraft(last.batch[1])

RejectedBatchChangesNothing ==
    (last'.op = "confirm" /\ last'.result # "ok")
        => (orders' = orders /\ docs' = docs /\ pickings' = pickings)

\* C6: when the validation pass rejects an order of the batch, no order of the
\* batch gets a document, no document is created and no receipt set changes
C6_FailFast == [][RejectedBatchChangesNothing]_vars

\* a rejected batch of two whose first order passes the validation pass, is
\* linked and has a receipt its document lacks (the mutation pass would add it)
C6_Witness ==
    /\ last.op = "confirm"
    /\ last.result # "ok"
    /\ Len(last.batch) = 2
    /\ LET a == last.batch[1]
       IN  /\ orders[a].pedimiento_id # 0
           /\ ~(OrderPickings(Db, a) \subseteq docs[orders[a].pedimiento_id].picking_ids)

\* a revert of order o, which references document d, took place
Reverted(o, d) ==
    /\ last'.op = "revert"
    /\ last'.order = o
    /\ orders[o].pedimiento_id = d

RevertOfSharedDocument ==
    \A o \in Orders, d \in DocIds :
        (Reverted(o, d) /\ Refs(d) \ {o} # {})
            => /\ last'.result # "CancellationBlockedError"
               /\ last'.result = "ok" => orders'[o].pedimiento_id = 0
               /\ \A x \in Orders \ {o} : orders'[x] = orders[x]
               /\ docs'[d].state = docs[d].state

\* C7: the revert of an order whose document other orders reference clears the
\* reference of that order only and leaves the state of the document
C7_SharedRevert == [][RevertOfSharedDocument]_vars

C7_Witness ==
    /\ last.op = "revert"
    /\ last.result = "ok"
    /\ orders[last.order].pedimiento_id = 0
    /\ Refs(last.doc) # {}
    /\ docs[last.doc].state \in {"draft", "done"}

RevertOfOwnDraft ==
    \A o \in Orders, d \in DocIds :
        (/\ Reverted(o, d) /\ Refs(d) = {o}
         /\ docs[d].state = "draft"
         /\ last'.result \notin PreconditionErrors)
            => /\ last'.result = "ok"
               /\ docs'[d].state = "cancel"
               /\ orders'[o].pedimiento_id = 0

\* C8: the revert, its preconditions satisfied, of the only order that
\* references a draft document cancels the document and clears the reference
C8_LastDraft == [][RevertOfOwnDraft]_vars

C8_Witness ==
    /\ last.op = "revert"
    /\ last.result = "ok"
    /\ orders[last.order].pedimiento_id = 0
    /\ Refs(last.doc) = {}
    /\ docs[last.doc].state = "cancel"
    /\ pickings # <<>>

RevertOfOwnDoneWithoutShCancel ==
    \A o \in Orders, d \in DocIds :
        (/\ Reverted(o, d) /\ Refs(d) = {o}
         /\ docs[d].state = "done"
         /\ ~last'.sh
         /\ last'.result \notin PreconditionErrors)
            => /\ last'.result = "CancellationBlockedError"
               /\ orders'[o].pedimiento_id = d
               /\ docs'[d].state = "done"

\* C9: without sh_cancel, the revert of the only order that references a done
\* document fails with CancellationBlockedError; the order keeps its reference
\* and the document stays done
C9_Blocked == [][RevertOfOwnDoneWithoutShCancel]_vars

C9_Witness ==
    /\ last.op = "revert"
    /\ last.result = "CancellationBlockedError"
    /\ orders[last.order].pedimiento_id = last.doc
    /\ Refs(last.doc) = {last.order}
    /\ docs[last.doc].state = "done"

\* the returns the last operation created, of picking p
NewReturnsOf(p) ==
    {r \in (Len(returns) + 1)..Len(returns') : returns'[r].origin = p}

\* return r sends back the full quantity of each returnable move of picking p
FullReturn(r, p) ==
    /\ returns'[r].state = "done"
    /\ returns'[r].lines =
           [i \in {j \in 1..Len(pickings[p].moves) :
                      ~pickings[p].moves[j].scrapped /\ pickings[p].moves[j].quantity > 0}
               |-> pickings[p].moves[i].quantity]

\* the revert made one full return of picking p and took p off document d
ReturnedAndDetached(p, d) ==
    /\ Cardinality(NewReturnsOf(p)) = 1
    /\ \A r \in NewReturnsOf(p) : FullReturn(r, p) /\ r \in last'.returned
    /\ p \notin docs'[d].picking_ids

\* C10 as stated: the revert of an order with a done receipt whose quantity is
\* available makes exactly one return of the receipt and detaches the receipt
C10_AsStated ==
    [][\A o \in Orders, d \in DocIds, p \in 1..Len(pickings) :
          (/\ Reverted(o, d)
           /\ pickings[p].order = o /\ pickings[p].state = "done"
           /\ last'.result \notin PreconditionErrors)
              => ReturnedAndDetached(p, d)]_vars

RevertOfDoneReceipt ==
    \A o \in Orders, d \in DocIds, p \in 1..Len(pickings) :
        (/\ Reverted(o, d)
         /\ pickings[p].order = o /\ pickings[p].state = "done"
         /\ last'.result = "ok")
            => IF ReturnableMoves(pickings[p]) # {} /\ p \notin last'.noted
               THEN ReturnedAndDetached(p, d)
               ELSE /\ \A r \in NewReturnsOf(p) :
                           returns'[r].state # "done" /\ r \notin last'.returned
                    /\ p \in docs'[d].picking_ids <=> p \in docs[d].picking_ids

\* C10, amended: a successful revert of an order with a done receipt that has a
\* non-scrapped move of positive quantity, when the return wizard and the
\* inventory engine complete the return, makes exactly one return of the
\* receipt, of the full quantity of each such move, and detaches the receipt;
\* when the receipt has no such move or the return fails, no return of it is
\* reported and the receipt stays where it was
C10_ReturnOnSuccess == [][RevertOfDoneReceipt]_vars

C10_Witness ==
    /\ last.op = "revert"
    /\ last.result = "ok"
    /\ \E r \in last.returned :
           /\ returns[r].state = "done"
           /\ pickings[returns[r].origin].order = last.order
           /\ DOMAIN returns[r].lines # {}
           /\ returns[r].origin \notin docs[last.doc].picking_ids

\* C11: whatever the operation, a document that is done or cancelled keeps
\* every receipt of its receipt set
C11_RetainedWhenNotDraft ==
    [][\A d \in DocIds :
          docs[d].state \in {"done", "cancel"}
              => docs[d].picking_ids \subseteq docs'[d].picking_ids]_vars

RevertCancelsOnlyExclusive ==
    \A o \in Orders, d \in DocIds :
        Reverted(o, d)
            => /\ docs'[d].state # docs[d].state
                      => (Refs(d) = {o} /\ docs'[d].state = "cancel")
               /\ Refs(d) # {o} => docs'[d].state = docs[d].state
               /\ Len(docs') = Len(docs)
               /\ \A e \in DocIds : docs'[e].number = docs[e].number

\* C12: a revert of an order changes the state of its document only when no
\* other order references the document, and then to cancelled; a document that
\* another order references keeps its state; no document is deleted
C12_DerivedExclusivity == [][RevertCancelsOnlyExclusive]_vars

\* a revert that cancelled a receipt of the order and kept the done document
\* that another order references
C12_Witness ==
    /\ last.op = "revert"
    /\ last.result = "ok"
    /\ last.cancelled # {}
    /\ Refs(last.doc) # {}
    /\ docs[last.doc].state = "done"

\* the errors of the revert preconditions that are raised for a linked order
InvoiceOrStockErrors ==
    {"PaidInvoiceError", "PostedInvoiceError", "InsufficientStockError"}

RefusedRevertChangesNothing ==
    (last'.op = "revert" /\ last'.result \in InvoiceOrStockErrors)
        => /\ pickings' = pickings
           /\ returns' = returns
           /\ docs' = docs
           /\ orders' = orders

\* C18: a revert that fails with PaidInvoiceError, PostedInvoiceError or
\* InsufficientStockError leaves receipts, returns, documents and the
\* references of the orders as they were
C18_PreconditionsFirst == [][RefusedRevertChangesNothing]_vars

\* a refused revert of an order with an open receipt on its document
C18_Witness ==
    /\ last.op = "revert"
    /\ last.result \in InvoiceOrStockErrors
    /\ orders[last.order].pedimiento_id = last.doc
    /\ \E p \in OrderPickings(Db, last.order) :
           pickings[p].state = "assigned" /\ p \in docs[last.doc].picking_ids

\* the transitions of the state of a document
DocTransitions ==
    {<<"draft", "done">>, <<"draft", "cancel">>, <<"done", "cancel">>}

DocLifecycle ==
    /\ Len(docs') >= Len(docs)
    /\ \A d \in (Len(docs) + 1)..Len(docs') : docs'[d].state = "draft"
    /\ \A d \in DocIds :
           docs'[d].state # docs[d].state
               => /\ <<docs[d].state, docs'[d].state>> \in DocTransitions
                  /\ last'.op = "revert"
                         => /\ docs'[d].state = "cancel"
                            /\ docs[d].state = "done" => last'.sh

\* C19: a document is created draft; its state changes only from draft to done,
\* from draft to cancelled and from done to cancelled, the last one in a revert
\* only through sh_cancel; a cancelled document keeps its state and a done
\* document never becomes draft
C19_Lifecycle == [][DocLifecycle]_vars

\* a done document that a revert cancelled through sh_cancel
C19_Witness ==
    /\ last.op = "revert"
    /\ last.sh
    /\ last.result = "ok"
    /\ docs[last.doc].state = "cancel"

\* the answers of the costing engine for the documents a call on sel processes
BulkAnswers(sel) ==
    {f \in [DocIds -> BulkOutcomes] :
        \A d \in DocIds : d \notin Range(MappedPedimentos(Db, sel, {})) => f[d] = "ok"}

\* the draft documents that the orders of sel reference
DraftDocsOf(sel) ==
    {orders[o].pedimiento_id : o \in OrdersToValidate(Db, sel)}

NoRepeat(q) == \A i, j \in 1..Len(q) : i # j => q[i] # q[j]

\* C13: in every reachable state and for every selection of orders, validateMany
\* processes each draft document that the orders reference exactly once, and
\* calls the cost computation and the validation at most once per document
C13_OncePerDocument ==
    \A sel \in Batches : \A vo \in BulkAnswers(sel) :
        LET r == ValidateBulk(Db, sel, vo)
            ds == MappedPedimentos(Db, sel, {})
        IN  /\ Range(ds) = DraftDocsOf(sel)
            /\ NoRepeat(ds)
            /\ NoRepeat(r.attempted)
            /\ NoRepeat(r.computed)
            /\ Len(r.errors) + Cardinality(r.validated) = Cardinality(DraftDocsOf(sel))

\* a call on two orders that share a draft document validated it
C13_Witness ==
    /\ last.op = "validate_bulk"
    /\ Len(last.batch) = 2
    /\ orders[last.batch[1]].pedimiento_id = orders[last.batch[2]].pedimiento_id
    /\ last.validated = {orders[last.batch[1]].pedimiento_id}
    /\ last.errors = <<>>

BulkNeverAborts ==
    last'.op = "validate_bulk"
        => LET ds == Range(MappedPedimentos(Db, last'.batch, {}))
           IN  /\ Range(last'.errors) \cup last'.validated = ds
               /\ Range(last'.errors) \cap last'.validated = {}
               /\ \A d \in Range(last'.errors) : docs'[d].state = "draft"
               /\ {d \in DocIds : docs[d].state # "done" /\ docs'[d].state = "done"}
                      = last'.validated

SeverityAsStated(validated, errors) ==
    IF validated # {} /\ errors = <<>> THEN "success"
    ELSE IF validated # {} /\ errors # <<>> THEN "warning"
    ELSE "danger"

\* C16: the severity of the report of validateMany is success when a document
\* was validated and there is no error, warning when a document was validated
\* and there is an error, danger in every other case
C16_Severity ==
    [][last'.op = "validate_bulk"
          => last'.result = SeverityAsStated(last'.validated, last'.errors)]_vars

\* C17: the format check of a written value succeeds exactly when the value is
\* empty or is the pattern, two digits, two spaces, two digits, two spaces,
\* four digits, two spaces, seven digits, with nothing before or after
C17_ExactFormat ==
    form.check # "none"
        => (form.check = "ok" <=> form.value \in {<<>>, CustomNumbersPattern})

\* C14: for every selection of orders the four categories of validateMany, no
\* number, number without document, document done, document draft, have no
\* order in common
C14_DisjointCategories ==
    \A sel \in Batches :
        LET cats == <<OrdersWithoutCustoms(Db, sel), OrdersWithoutPedimento(Db, sel),
                      OrdersAlreadyValidated(Db, sel), OrdersToValidate(Db, sel)>>
        IN  \A i, j \in 1..4 : i # j => cats[i] \cap cats[j] = {}

\* C20: the reference of an order to a document goes from unset to set only
\* in confirmOrders, from set to unset only in revertOrder or revertDocument,
\* and never from one document to another
C20_ReferenceFrame ==
    [][\A o \in Orders :
          /\ (orders[o].pedimiento_id = 0 /\ orders'[o].pedimiento_id # 0)
                 => last'.op = "confirm"
          /\ (orders[o].pedimiento_id # 0 /\ orders'[o].pedimiento_id = 0)
                 => last'.op \in {"revert", "revert_doc"}
          /\ (orders[o].pedimiento_id # 0 /\ orders'[o].pedimiento_id # 0)
                 => orders'[o].pedimiento_id = orders[o].pedimiento_id]_vars

RevertClearsAfterGate ==
    \A o \in Orders, d \in DocIds :
        Reverted(o, d)
            => /\ last'.result = "ok" => orders'[o].pedimiento_id = 0
               /\ last'.result # "ok" => orders'[o].pedimiento_id = d
               /\ orders'[o].pedimiento_id = 0
                      => \/ Refs(d) \ {o} # {}
                         \/ docs'[d].state = "cancel"

\* C22: a revert that returns successfully leaves the order without document
\* reference, whether or not a return failed; a revert that raises leaves the
\* reference, and the reference is cleared only when the cancellation of the
\* document was skipped (other orders reference it) or has left it cancelled
C22_ClearedAfterGate == [][RevertClearsAfterGate]_vars

C22_Witness ==
    /\ last.op = "revert"
    /\ last.result = "ok"
    /\ last.noted # {}
    /\ orders[last.order].pedimiento_id = 0
    /\ docs[last.doc].state = "cancel"

\* the states of a receipt that is neither completed nor cancelled
OpenStates == {"draft", "confirmed", "assigned"}

RevertCancelsOpenReceipts ==
    \A o \in Orders, d \in DocIds :
        (Reverted(o, d) /\ last'.result = "ok")
            => \A p \in OrderPickings(Db, o) :
                   /\ pickings'[p].state \notin OpenStates
                   /\ pickings[p].state \in OpenStates
                          => /\ pickings'[p].state = "cancel"
                             /\ p \in last'.cancelled
                             /\ docs[d].state = "draft" => p \notin docs'[d].picking_ids

CheckAnswers(o) ==
    [paid : SUBSET {o}, posted : SUBSET {o}, avail : 0..MaxQty, sh : {FALSE},
     outc : {[p \in 1..Len(pickings) |-> "ok"]}, rollback : {FALSE}]

\* a completed move of a done receipt of order o moved more than avail
ShortOfStock(o, avail) ==
    \E p \in 1..Len(pickings) :
        /\ pickings[p].order = o
        /\ pickings[p].state = "done"
        /\ \E i \in 1..Len(pickings[p].moves) : avail < pickings[p].moves[i].quantity

\* C25: a revert of an order with a paid invoice fails with PaidInvoiceError,
\* else one with a posted invoice with PostedInvoiceError, and else it fails
\* with InsufficientStockError exactly when a completed move of a done receipt
\* of the order moved more than is available at its destination
C25_StockCheck ==
    \A o \in Orders : orders[o].pedimiento_id # 0 =>
        \A inp \in CheckAnswers(o) :
            LET res == RevertOrder(Db, o, inp).result
            IN  /\ o \in inp.paid => res = "PaidInvoiceError"
                /\ (o \notin inp.paid /\ o \in inp.posted) => res = "PostedInvoiceError"
                /\ o \notin inp.paid \cup inp.posted
                       => (res = "InsufficientStockError" <=> ShortOfStock(o, inp.avail))

C25_Witness ==
    /\ last.op = "revert"
    /\ last.result = "InsufficientStockError"
    /\ orders[last.order].pedimiento_id = last.doc
    /\ ShortOfStock(last.order, 0)
    /\ ~ShortOfStock(last.order, MaxQty)

\* the returns the last operation created for the receipts of order o
NewReturnsFor(o) ==
    {r \in (Len(returns) + 1)..Len(returns') : pickings[returns'[r].origin].order = o}

\* C26: a successful revert hands back a reference to exactly the returns it
\* created for the receipts of the order (last.returned; empty for the plain
\* success value), so it hands back a reference iff it created a return
C26_ReturnsReference ==
    [][\A o \in Orders, d \in DocIds :
          (Reverted(o, d) /\ last'.result = "ok")
              => last'.returned = NewReturnsFor(o)]_vars

\* a confirmation of order o alone, which referenced document d before
ConfirmedLinked(o, d) ==
    /\ last'.op = "confirm"
    /\ last'.batch = <<o>>
    /\ orders[o].pedimiento_id = d

ConfirmOfLinkedOrder ==
    \A o \in Orders, d \in DocIds :
        ConfirmedLinked(o, d)
            => /\ last'.result = "ok"
               /\ orders' = orders
               /\ pickings' = pickings
               /\ Len(docs') = Len(docs)
               /\ \A e \in DocIds \ {d} : docs'[e] = docs[e]
               /\ docs'[d] = [docs[d] EXCEPT !.picking_ids =
                                 IF orders[o].number = "" THEN @
                                 ELSE @ \cup OrderPickings(Db, o)]

\* confirming a linked order once more changes nothing
ConfirmTwiceIsConfirmOnce ==
    \A o \in Orders, srch \in Searches :
        orders[o].pedimiento_id # 0
            => LET once == ButtonConfirmDb(Db, <<o>>, {}, srch)
               IN  ButtonConfirmDb(once, <<o>>, {}, srch) = once

\* C27: the confirmation of an order that references a document keeps the
\* reference, creates no document and no receipt, and changes nothing but the
\* receipt set of that document, which becomes its union with the receipts of
\* the order; a second confirmation leaves the database as the first left it
C27_MergeAttach == []ConfirmTwiceIsConfirmOnce /\ [][ConfirmOfLinkedOrder]_vars

C27_Witness ==
    /\ last.op = "confirm"
    /\ last.result = "ok"
    /\ Len(last.batch) = 1
    /\ LET o == last.batch[1]
           d == orders[o].pedimiento_id
       IN  /\ d # 0
           /\ docs[d].state = "done"
           /\ OrderPickings(Db, o) # {}
           /\ OrderPickings(Db, o) \subseteq docs[d].picking_ids
           /\ docs[d].picking_ids \ OrderPickings(Db, o) # {}

\* the draft documents of the orders of sel that have no receipt
EmptyDocsOf(sel) ==
    {d \in Range(MappedPedimentos(Db, sel, {})) : docs[d].picking_ids = {}}

\* neither the cost computation nor the validation is called on such a document
EmptyDocsAreSkipped ==
    \A sel \in Batches : \A vo \in BulkAnswers(sel) :
        LET r == ValidateBulk(Db, sel, vo)
        IN  \A d \in EmptyDocsOf(sel) :
                /\ d \notin Range(r.computed)
                /\ d \notin Range(r.attempted)
                /\ d \in Range(r.errors)

BulkLeavesEmptyDocs ==
    last'.op = "validate_bulk"
        => \A d \in EmptyDocsOf(last'.batch) :
               /\ docs'[d] = docs[d]
               /\ d \in Range(last'.errors)
               /\ d \notin last'.validated

\* C29: validateMany leaves a draft document without receipts as it is, draft,
\* records an error for it, and calls neither the cost computation nor the
\* validation on it, whatever the costing engine would have answered
C29_NoReceiptsNoValidation == []EmptyDocsAreSkipped /\ [][BulkLeavesEmptyDocs]_vars

C29_Witness ==
    /\ last.op = "validate_bulk"
    /\ \E i \in 1..Len(last.errors) :
           /\ docs[last.errors[i]].picking_ids = {}
           /\ docs[last.errors[i]].state = "draft"
           /\ \E o \in Range(last.batch) : orders[o].pedimiento_id = last.errors[i]

\* the orders in which the search of the revert of document d can return the
\* orders that reference d
RefOrders(d) == {q \in Batches : Range(q) = Refs(d)}

\* the revert of document d, stopped after the first k orders of pos
RevertedPrefix(d, pos, k, inp) ==
    RevertLoop([db |-> Db, db0 |-> Db, result |-> "ok", reverted |-> <<>>,
                returned |-> {}], SubSeq(pos, 1, k), inp)

\* before the last order is reverted the document is in the state it was in,
\* and each order reverted so far has lost its reference; when the revert of
\* every order succeeded, the document is cancelled and nothing references it
OneOrderAtATime ==
    \A d \in DocIds : \A pos \in RefOrders(d) : \A inp \in RevertInputs(Refs(d), d) :
        /\ \A k \in 0..(Len(pos) - 1) :
               LET r == RevertedPrefix(d, pos, k, inp)
               IN  /\ r.db.docs[d].state = docs[d].state
                   /\ r.result = "ok"
                          => /\ r.reverted = SubSeq(pos, 1, k)
                             /\ \A i \in 1..Len(pos) :
                                    r.db.orders[pos[i]].pedimiento_id
                                        = IF i <= k THEN 0 ELSE d
        /\ LET r == RevertDocument(Db, d, pos, inp)
           IN  r.result = "ok"
                   => /\ r.reverted = pos
                      /\ r.db.docs[d].state = "cancel"
                      /\ \A o \in Orders : r.db.orders[o].pedimiento_id # d

RevertOfDocument ==
    \A d \in DocIds :
        (last'.op = "revert_doc" /\ last'.doc = d /\ last'.result = "ok")
            => /\ Range(last'.batch) = Refs(d)
               /\ Refs(d) # {}
               /\ \A o \in Orders : orders'[o].pedimiento_id # d
               /\ docs'[d].state = "cancel"

RevertWithFailedReturn ==
    \A o \in Orders, d \in DocIds :
        (Reverted(o, d) /\ last'.noted # {})
            => /\ \A p \in last'.noted :
                      /\ pickings[p].order = o /\ pickings[p].state = "done"
                      /\ p \in docs'[d].picking_ids <=> p \in docs[d].picking_ids
                      /\ NewReturnsOf(p) \cap last'.returned = {}
               /\ \A q \in Returnable({o}) \ last'.noted : ReturnedAndDetached(q, d)
               /\ IF Refs(d) = {o} /\ docs[d].state = "done" /\ ~last'.sh
                  THEN /\ last'.result = "CancellationBlockedError"
                       /\ orders'[o].pedimiento_id = d
                       /\ docs'[d].state = "done"
                  ELSE /\ last'.result = "ok"
                       /\ orders'[o].pedimiento_id = 0
                       /\ Refs(d) = {o} => docs'[d].state = "cancel"

\* C23: a revert in which the return of a done receipt fails notes the failure
\* on the order, leaves that receipt on the document, still returns and
\* detaches every other done receipt, and still cancels the document (or is
\* stopped by the cancellation gate) and clears the reference
C23_BestEffort == [][RevertWithFailedReturn]_vars

C23_Witness ==
    /\ last.op = "revert"
    /\ last.result = "ok"
    /\ last.noted # {}
    /\ last.noted \subseteq docs[last.doc].picking_ids
    /\ \E r \in last.returned :
           /\ returns[r].state = "done"
           /\ returns[r].origin \notin last.noted
           /\ pickings[returns[r].origin].order = last.order
           /\ \E p \in last.noted : p < returns[r].origin
    /\ orders[last.order].pedimiento_id = 0
    /\ docs[last.doc].state = "cancel"

ReceiptCreated ==
    \A o \in Orders :
        (last'.op = "receipt_create" /\ last'.order = o)
            => LET p == Len(pickings) + 1
                   d == orders[o].pedimiento_id
               IN  /\ Len(pickings') = p
                   /\ pickings'[p].order = o
                   /\ orders' = orders
                   /\ IF last'.result = "ok" /\ d # 0
                      THEN docs' = [docs EXCEPT ![d].picking_ids = @ \cup {p}]
                      ELSE docs' = docs

\* the attach hook puts a receipt on the document of its order, and does
\* nothing to a database in which the receipt is on it
AttachIsIdempotent ==
    \A p \in 1..Len(pickings) :
        LET d == orders[pickings[p].order].pedimiento_id
            once == AddToLandedCost(Db, p)
        IN  /\ d # 0 => p \in once.docs[d].picking_ids
            /\ AddToLandedCost(once, p) = once
            /\ (d = 0 \/ p \in docs[d].picking_ids) => once = Db

\* C28: a receipt created with moves that trace to an order that references a
\* document is in the receipt set of that document afterwards, whatever the
\* state of the document, and nothing else changes; the creation of a receipt
\* for an order without reference changes no document; attaching a receipt
\* that is in the receipt set changes nothing
C28_AttachOnCreate == []AttachIsIdempotent /\ [][ReceiptCreated]_vars

C28_Witness ==
    /\ last.op = "receipt_create"
    /\ last.result = "ok"
    /\ last.doc # 0
    /\ orders[last.order].pedimiento_id = last.doc
    /\ docs[last.doc].state = "done"
    /\ Len(pickings) \in docs[last.doc].picking_ids
    /\ pickings[Len(pickings)].order = last.order

\* receipt p has a completed return
AlreadyReturned(p) ==
    \E r \in 1..Len(returns) : returns[r].origin = p /\ returns[r].state = "done"

\* a successful revert returns a done receipt that already has a completed
\* return once more, and keeps the returns there were
RevertReturnsAgain ==
    \A o \in Orders, d \in DocIds, p \in 1..Len(pickings) :
        (/\ Reverted(o, d) /\ last'.result = "ok"
         /\ pickings[p].order = o /\ pickings[p].state = "done"
         /\ ReturnableMoves(pickings[p]) # {}
         /\ AlreadyReturned(p)
         /\ p \notin last'.noted)
            => /\ Cardinality(NewReturnsOf(p)) = 1
               /\ \A r \in NewReturnsOf(p) : FullReturn(r, p) /\ r \in last'.returned
               /\ \A r \in 1..Len(returns) : returns'[r] = returns[r]

\* C30: nothing in a revert looks for the returns a receipt already has: the
\* revert of an order whose done receipt has a completed return makes another
\* full return of that receipt when the inventory engine completes it, and a
\* state with two completed returns of one receipt is reachable
C30_NoDuplicateGuard == [][RevertReturnsAgain]_vars

C30_Witness ==
    /\ last.op = "revert"
    /\ \E r1, r2 \in 1..Len(returns) :
           /\ r1 < r2
           /\ returns[r1].origin = returns[r2].origin
           /\ returns[r1].state = "done" /\ returns[r2].state = "done"
           /\ r1 \notin last.returned /\ r2 \in last.returned
           /\ pickings[returns[r1].origin].order = last.order

RevertWithoutReference ==
    \A o \in Orders :
        (last'.op = "revert" /\ last'.order = o /\ orders[o].pedimiento_id = 0)
            => /\ last'.result = "NoPedimentoError"
               /\ last'.cancelled = {} /\ last'.returned = {} /\ last'.noted = {}
               /\ orders' = orders
               /\ docs' = docs
               /\ pickings' = pickings
               /\ returns' = returns

\* C39: the revert of an order that references no document raises an error
\* and leaves every order, document, receipt and return as it was
C39_NoReference == [][RevertWithoutReference]_vars

C39_Witness ==
    /\ last.op = "revert"
    /\ last.result = "NoPedimentoError"
    /\ orders[last.order].pedimiento_id = 0
    /\ last.doc = 0
    /\ \E p \in 1..Len(pickings) :
           pickings[p].order = last.order /\ pickings[p].state = "assigned"
    /\ \E p \in 1..Len(pickings) :
           pickings[p].order = last.order /\ pickings[p].state = "done"

\* C37: every return that a revert created and that exists after it is in the
\* set the revert reports, and its receipt is off the document: no return is
\* left behind by a reservation or completion that failed
C37_NoReturnLeftBehind ==
    [][\A o \in Orders, d \in DocIds :
          Reverted(o, d)
              => \A r \in (Len(returns) + 1)..Len(returns') :
                     /\ r \in last'.returned
                     /\ returns'[r].state = "done"
                     /\ returns'[r].origin \notin docs'[d].picking_ids]_vars

\* C36: in every reachable state each receipt in the receipt set of a draft
\* document belongs to an order that references that document
C36_DraftSetOfReferencingOrders ==
    \A d \in DocIds :
        docs[d].state = "draft"
            => \A p \in docs[d].picking_ids :
                   orders[pickings[p].order].pedimiento_id = d

\* the draft documents that carry number n
DraftsOfNumber(n) == {d \in DocIds : docs[d].number = n /\ docs[d].state = "draft"}

\* C34: after any sequence of confirmations, validations and reverts of
\* orders and of documents, each customs number has at most one draft document
C34_OneDraftPerNumber ==
    \A n \in Numbers : Cardinality(DraftsOfNumber(n)) <= 1

C34_Witness ==
    \E n \in Numbers :
        /\ Cardinality(DraftsOfNumber(n)) = 1
        /\ Cardinality({o \in Orders : orders[o].pedimiento_id \in DraftsOfNumber(n)}) = NumOrders
        /\ \E e \in DocIds : docs[e].number = n /\ docs[e].state = "cancel"

\* C35: while no customs number is edited after confirmation, every order
\* that references a document carries the customs number of that document
C35_SameNumber ==
    \A o \in Orders :
        orders[o].pedimiento_id # 0
            => /\ orders[o].pedimiento_id \in DocIds
               /\ docs[orders[o].pedimiento_id].number = orders[o].number
               /\ orders[o].number # ""

C35_Witness ==
    \E a, b \in Orders :
        /\ orders[a].number # orders[b].number
        /\ orders[a].pedimiento_id # 0 /\ orders[b].pedimiento_id # 0
        /\ docs[orders[a].pedimiento_id].number = orders[a].number
        /\ docs[orders[b].pedimiento_id].number = orders[b].number
        /\ last.op = "confirm" /\ Len(last.batch) = 1

\* no confirmation is in flight
Quiet == \A o \in Orders : txn[o].phase = "idle"

\* C38: when the confirmations of two unlinked orders with one customs number
\* have run side by side, both reading before either wrote, that number still
\* has a single draft document, and each order's partner is among the partners
\* of the receipts of the document it is linked to
C38_InterleavedConfirm ==
    Quiet =>
        /\ \A n \in Numbers :
               Cardinality({d \in DocIds : docs[d].number = n /\ docs[d].state = "draft"}) <= 1
        /\ \A o \in Orders :
               LET d == orders[o].pedimiento_id
               IN  (d # 0 /\ docs[d].state = "draft" /\ DocPartners(Db, d) # {})
                       => DocPartners(Db, d) = {orders[o].partner}

\* ---- mrp_restrictions -------------------------------------------------------

Employees == 1..MaxEmployees

\* the characters of a stored parameter: brackets, comma, blank, the digits of
\* the employee ids, and a character that belongs to no JSON text
IsDigit(c) == c \in {"1", "2"}

DigitValue(c) == IF c = "1" THEN 1 ELSE 2

DigitOf(n) == IF n = 1 THEN "1" ELSE "2"

\* JSON lets blanks stand between tokens
RECURSIVE SkipBlanks(_)
SkipBlanks(s) ==
    IF s = <<>> THEN <<>>
    ELSE IF Head(s) = " " THEN SkipBlanks(Tail(s))
    ELSE <<Head(s)>> \o SkipBlanks(Tail(s))

\* a number, then comma and number any number of times
JsonItemsOk(s) ==
    /\ Len(s) % 2 = 1
    /\ \A i \in 1..Len(s) : IF i % 2 = 1 THEN IsDigit(s[i]) ELSE s[i] = ","

\* json.loads on the characters of the parameter: a list of numbers, a lone
\* number, or a ValueError
JsonLoads(chars) ==
    LET s == SkipBlanks(chars)
        inner == SubSeq(s, 2, Len(s) - 1)
    IN  IF Len(s) = 1 /\ IsDigit(s[1])
        THEN [kind |-> "int", int |-> DigitValue(s[1]), list |-> <<>>]
        ELSE IF Len(s) >= 2 /\ s[1] = "[" /\ s[Len(s)] = "]"
                /\ (inner = <<>> \/ JsonItemsOk(inner))
        THEN [kind |-> "list", int |-> 0,
              list |-> [i \in 1..((Len(inner) + 1) \div 2) |-> DigitValue(inner[2 * i - 1])]]
        ELSE [kind |-> "ValueError", int |-> 0, list |-> <<>>]

\* json.dumps of a list of ids: items separated by a comma and a blank
RECURSIVE JsonDumpItems(_)
JsonDumpItems(ids) ==
    IF ids = <<>> THEN <<>>
    ELSE IF Len(ids) = 1 THEN <<DigitOf(ids[1])>>
    ELSE <<DigitOf(ids[1]), ",", " ">> \o JsonDumpItems(Tail(ids))

JsonDumps(ids) == <<"[">> \o JsonDumpItems(ids) \o <<"]">>

\* who is at the panel and behind the web session
Sessions ==
    [employees_connected : SUBSET Employees, employee_id : {0, 2}, user_employee : {0, 1}]

\* the employees the check looks at: the connected operators, the session's
\* single employee, and only when there is neither the user's own employee
EmployeeIdsToCheck(session) ==
    LET connected == SetToSeq(session.employees_connected)
        shop == IF session.employee_id # 0 /\ session.employee_id \notin Range(connected)
                THEN Append(connected, session.employee_id)
                ELSE connected
    IN  IF shop # <<>> THEN shop
        ELSE IF session.user_employee # 0 THEN <<session.user_employee>>
        ELSE <<>>

\* the check that falls back on the user's employee whoever is at the panel
IsCurrentUserAuthorized_AlsoUser(session, param) ==
    LET shop == EmployeeIdsToCheck(session)
        to_check == IF session.user_employee # 0 /\ session.user_employee \notin Range(shop)
                    THEN Append(shop, session.user_employee)
                    ELSE shop
        loaded == JsonLoads(IF param.isstr THEN param.chars ELSE <<"[", "]">>)
    IN  IF to_check = <<>> THEN "no"
        ELSE IF loaded.kind = "ValueError" \/ (loaded.kind = "list" /\ loaded.list = <<>>)
        THEN "no"
        ELSE IF loaded.kind = "int" THEN "TypeError"
        ELSE IF \E i \in 1..Len(to_check) : to_check[i] \in Range(loaded.list)
        THEN "yes"
        ELSE "no"

\* _is_current_user_authorized: "yes", "no", or the TypeError of looking an
\* employee up in a parameter that holds a number
IsCurrentUserAuthorized(session, param) ==
    LET to_check == EmployeeIdsToCheck(session)
        allowed_str == IF param.isstr THEN param.chars ELSE <<"[", "]">>
        loaded == JsonLoads(allowed_str)
    IN  IF to_check = <<>> THEN "no"
        ELSE IF loaded.kind = "ValueError" \/ (loaded.kind = "list" /\ loaded.list = <<>>)
        THEN "no"
        ELSE IF loaded.kind = "int" THEN "TypeError"
        ELSE IF \E i \in 1..Len(to_check) : to_check[i] \in Range(loaded.list)
        THEN "yes"
        ELSE "no"

\* the values one create call gives for a move; production 0: no raw-material
\* production among the values
CreateVals == [raw_material_production_id : {0, 1}, product_uom_qty : 0..MaxMrpQty]

ValsLists == UNION {[1..n -> CreateVals] : n \in 1..MaxValsList}

\* the values of a write: the fields named, and what the quantity fields get;
\* picked stands for the fields the moves of the model do not carry
WriteVals ==
    {v \in [fields : SUBSET {"product_uom_qty", "quantity", "picked"},
            product_uom_qty : 0..MaxMrpQty, quantity : 0..MaxMrpQty] :
        /\ v.fields # {}
        /\ ("product_uom_qty" \notin v.fields => v.product_uom_qty = 0)
        /\ ("quantity" \notin v.fields => v.quantity = 0)}

\* StockMove.create: the check runs over every set of values before any move
\* is created
StockMoveCreate(m, vals_list) ==
    LET restricted == \E i \in 1..Len(vals_list) : vals_list[i].raw_material_production_id # 0
        auth == IsCurrentUserAuthorized(m.session, m.param)
    IN  IF restricted /\ auth = "no"
        THEN [m EXCEPT !.op = "create", !.result = "UserError"]
        ELSE IF restricted /\ auth = "TypeError"
        THEN [m EXCEPT !.op = "create", !.result = "TypeError"]
        ELSE [m EXCEPT !.op = "create", !.result = "ok",
                       !.moves = @ \o [i \in 1..Len(vals_list) |->
                           [raw_material_production_id |-> vals_list[i].raw_material_production_id,
                            product_uom_qty |-> vals_list[i].product_uom_qty,
                            quantity |-> 0]]]

\* StockMove.write on the moves ids
StockMoveWrite(m, ids, vals) ==
    LET quantity_fields_changed == vals.fields \cap {"product_uom_qty", "quantity"}
        raw_material_moves == {i \in ids : m.moves[i].raw_material_production_id # 0}
        restricted == quantity_fields_changed # {} /\ raw_material_moves # {}
        auth == IsCurrentUserAuthorized(m.session, m.param)
    IN  IF restricted /\ auth = "no"
        THEN [m EXCEPT !.op = "write", !.result = "UserError"]
        ELSE IF restricted /\ auth = "TypeError"
        THEN [m EXCEPT !.op = "write", !.result = "TypeError"]
        ELSE [m EXCEPT !.op = "write", !.result = "ok",
                       !.moves = [i \in 1..Len(m.moves) |->
                           IF i \notin ids THEN m.moves[i]
                           ELSE [m.moves[i] EXCEPT
                                    !.product_uom_qty =
                                        IF "product_uom_qty" \in vals.fields
                                        THEN vals.product_uom_qty ELSE @,
                                    !.quantity =
                                        IF "quantity" \in vals.fields
                                        THEN vals.quantity ELSE @]]]

MrpUnchanged == UNCHANGED <<orders, docs, pickings, returns, last, watch, form, txn, pos_session>>

MoveCreate ==
    \E vals_list \in ValsLists :
        /\ Len(mrp.moves) + Len(vals_list) <= MaxMrpMoves
        /\ mrp' = StockMoveCreate(mrp, vals_list)
        /\ MrpUnchanged

MoveWrite ==
    \E ids \in SUBSET (1..Len(mrp.moves)), vals \in WriteVals :
        /\ ids # {}
        /\ mrp' = StockMoveWrite(mrp, ids, vals)
        /\ MrpUnchanged

\* ResConfigSettings.set_values stores the ids of the chosen employees
SetValues ==
    \E chosen \in SUBSET Employees :
        /\ mrp' = [mrp EXCEPT !.param = [isstr |-> TRUE, chars |-> JsonDumps(SetToSeq(chosen))],
                              !.op = "set_values", !.result = "ok"]
        /\ MrpUnchanged

\* operators connect or leave at the panel, another user logs in
SessionChange ==
    \E session \in Sessions :
        /\ session # mrp.session
        /\ mrp' = [mrp EXCEPT !.session = session, !.op = "session", !.result = "ok"]
        /\ MrpUnchanged

\* the parameter as the module finds it: never stored, or stored by hand as
\* something that is no list of ids
StoredByHand == {<<"x">>, <<"1">>, <<"[", "1", ",", "]">>}

InitMrp ==
    /\ orders = [o \in Orders |-> [partner |-> "p1", number |-> "", pedimiento_id |-> 0,
                                    state |-> "draft"]]
    /\ docs = <<>>
    /\ pickings = <<>>
    /\ returns = <<>>
    /\ last = NoLast
    /\ watch = "mrp"
    /\ form = NoForm
    /\ txn = NoTxn
    /\ pos_session = NoPos
    /\ mrp \in {[NoMrp EXCEPT !.param = p] :
                   p \in {NoMrp.param} \cup {[isstr |-> TRUE, chars |-> c] : c \in StoredByHand}}

NextMrp == MoveCreate \/ MoveWrite \/ SetValues \/ SessionChange

SpecMrp == InitMrp /\ [][NextMrp]_vars

\* the reading of the rule: the operators at the panel, or without any the
\* user's employee, against the ids of a parameter that is a list
Editors ==
    LET shop == mrp.session.employees_connected \cup
                (IF mrp.session.employee_id # 0 THEN {mrp.session.employee_id} ELSE {})
    IN  IF shop # {} THEN shop
        ELSE IF mrp.session.user_employee # 0 THEN {mrp.session.user_employee}
        ELSE {}

AllowedEditors ==
    LET loaded == JsonLoads(mrp.param.chars)
    IN  IF mrp.param.isstr /\ loaded.kind = "list" THEN Range(loaded.list) ELSE {}

RawMoves(moves) == {i \in 1..Len(moves) : moves[i].raw_material_production_id # 0}

\* a create or a write of someone outside the allowed editors either fails and
\* leaves the moves as they were, or touches no raw-material move
UnauthorizedStep ==
    (mrp'.op \in {"create", "write"} /\ mrp' # mrp /\ Editors \cap AllowedEditors = {})
        => \/ mrp'.result \in {"UserError", "TypeError"} /\ mrp'.moves = mrp.moves
           \/ /\ mrp'.result = "ok"
              /\ RawMoves(mrp'.moves) = RawMoves(mrp.moves)
              /\ \A i \in RawMoves(mrp.moves) : mrp'.moves[i] = mrp.moves[i]

\* C31: a quantity change on a raw-material move and the creation of one are
\* rejected with an error and write nothing unless an operator at the panel,
\* or without any the user's employee, is in the allowed-editors list; an
\* empty or unparsable list allows no one
C31_OnlyAllowedEditors == [][UnauthorizedStep]_vars

\* a write of a quantity on a raw-material move has just been refused although
\* the user's employee is allowed: the operator at the panel is not
C31_Witness ==
    /\ mrp.op = "write"
    /\ mrp.result = "UserError"
    /\ RawMoves(mrp.moves) # {}
    /\ mrp.session.employees_connected = {2}
    /\ mrp.session.user_employee = 1
    /\ AllowedEditors = {1}

\* ---- pos_return: create_return ----------------------------------------------

Products == 1..MaxProducts

\* an id whose product.product record is gone
DeletedProduct == MaxProducts + 1

\* what the client sends for one product
ProductData ==
    [product_id : {1, DeletedProduct}, quantity : 0..MaxPosQty, price_unit : 1..MaxPosQty]

ProductsDatas == UNION {[1..n -> ProductData] : n \in 0..MaxProductsData}

\* what the call meets: a warehouse, its receipt type, how far the stock engine
\* gets with the picking, and whether try_cash_in_out goes through; what comes
\* after the first thing that raises is never asked
PosEnvs ==
    {env \in [warehouse : BOOLEAN, picking_type : BOOLEAN,
              engine : {"ok", "action_confirm", "action_assign", "_action_done"},
              cash : BOOLEAN] :
        /\ (~env.warehouse => env.picking_type /\ env.engine = "ok" /\ env.cash)
        /\ (~env.picking_type => env.engine = "ok" /\ env.cash)
        /\ (env.engine # "ok" => env.cash)}

RECURSIVE TotalAmount(_)
TotalAmount(products_data) ==
    IF products_data = <<>> THEN 0
    ELSE Head(products_data).quantity * Head(products_data).price_unit
         + TotalAmount(Tail(products_data))

\* the moves created before the loop meets a product that is gone
RECURSIVE ReturnMoves(_)
ReturnMoves(products_data) ==
    IF products_data = <<>> \/ Head(products_data).product_id = DeletedProduct THEN <<>>
    ELSE <<[product_id |-> Head(products_data).product_id,
            product_uom_qty |-> Head(products_data).quantity,
            quantity |-> 0]>> \o ReturnMoves(Tail(products_data))

\* _create_return_receipt: the pickings afterwards and whether it raised; each
\* record it created before raising is still there
CreateReturnReceipt(stock_picking, origin_ref, products_data, env) ==
    LET moves == ReturnMoves(products_data)
        picked == [i \in 1..Len(moves) |->
                       [moves[i] EXCEPT !.quantity = moves[i].product_uom_qty]]
        picking(state, mv) == [origin |-> origin_ref, state |-> state, moves |-> mv]
    IN  IF ~env.warehouse \/ ~env.picking_type
        THEN [pickings |-> stock_picking, raised |-> TRUE]
        ELSE IF Len(moves) < Len(products_data)
        THEN [pickings |-> Append(stock_picking, picking("draft", moves)), raised |-> TRUE]
        ELSE IF env.engine = "action_confirm"
        THEN [pickings |-> Append(stock_picking, picking("draft", moves)), raised |-> TRUE]
        ELSE IF env.engine = "action_assign"
        THEN [pickings |-> Append(stock_picking, picking("confirmed", moves)), raised |-> TRUE]
        ELSE IF env.engine = "_action_done"
        THEN [pickings |-> Append(stock_picking, picking("assigned", picked)), raised |-> TRUE]
        ELSE [pickings |-> Append(stock_picking, picking("done", picked)), raised |-> FALSE]

\* _create_return_cash_out: try_cash_in_out adds the statement line or raises
CreateReturnCashOut(cash, reason, amount, env) ==
    IF env.cash THEN [cash |-> Append(cash, [reason |-> reason, amount |-> amount]),
                      raised |-> FALSE]
    ELSE [cash |-> cash, raised |-> TRUE]

\* create_return: whatever raises inside is caught, the answer is a failure,
\* and the call returns
CreateReturn(ps, ticket, products_data, return_type, env) ==
    LET failure == [ps EXCEPT !.op = "create_return", !.result = "failure"]
        total_amount == TotalAmount(products_data)
        origin_ref == IF return_type = "no_ticket" THEN "SIN_TICKET" ELSE ticket
        receipt == CreateReturnReceipt(ps.pickings, origin_ref, products_data, env)
        cash_out == CreateReturnCashOut(ps.cash, ticket, total_amount, env)
    IN  IF ticket = "" THEN failure
        ELSE IF products_data = <<>> THEN failure
        ELSE IF total_amount <= 0 THEN failure
        ELSE IF receipt.raised THEN [failure EXCEPT !.pickings = receipt.pickings]
        ELSE IF cash_out.raised THEN [failure EXCEPT !.pickings = receipt.pickings]
        ELSE [ps EXCEPT !.op = "create_return", !.result = "success",
                        !.pickings = receipt.pickings, !.cash = cash_out.cash]

PosUnchanged == UNCHANGED <<orders, docs, pickings, returns, last, watch, form, txn, mrp>>

PosCreateReturn ==
    \E ticket \in {"", "T1"}, products_data \in ProductsDatas,
       return_type \in {"odoo", "arus", "no_ticket"}, env \in PosEnvs :
        LET ps == CreateReturn(pos_session, ticket, products_data, return_type, env)
        IN  /\ Len(ps.pickings) <= MaxPosPickings
            /\ Len(ps.cash) <= MaxCash
            /\ pos_session' = ps
            /\ PosUnchanged

InitPos ==
    /\ orders = [o \in Orders |-> [partner |-> "p1", number |-> "", pedimiento_id |-> 0,
                                    state |-> "draft"]]
    /\ docs = <<>>
    /\ pickings = <<>>
    /\ returns = <<>>
    /\ last = NoLast
    /\ watch = "pos"
    /\ form = NoForm
    /\ txn = NoTxn
    /\ mrp = NoMrp

InitPosReturn == InitPos /\ pos_session = NoPos

NextPosReturn == PosCreateReturn

SpecPosReturn == InitPosReturn /\ [][NextPosReturn]_vars

\* a call of create_return answered success and added one receipt, validated,
\* and one cash move, or answered failure and added nothing
AllOrNothing ==
    (pos_session'.op = "create_return" /\ pos_session' # pos_session)
        => \/ /\ pos_session'.result = "success"
              /\ Len(pos_session'.pickings) = Len(pos_session.pickings) + 1
              /\ pos_session'.pickings[Len(pos_session'.pickings)].state = "done"
              /\ Len(pos_session'.cash) = Len(pos_session.cash) + 1
           \/ /\ pos_session'.result = "failure"
              /\ pos_session'.pickings = pos_session.pickings
              /\ pos_session'.cash = pos_session.cash

\* C32: create_return either creates the validated receipt and the cash-out
\* and answers success, or answers failure having created neither; a failing
\* cash-out and an invalid input leave no receipt behind
C32_AllOrNothing == [][AllOrNothing]_vars

\* ---- pos_return: get_partner_tickets ----------------------------------------

\* the lines of one paid order, whose reference is "T1"
OrderLines ==
    UNION {[1..n -> [product_id : Products, qty : (0 - MaxRefundQty)..MaxLineQty]] : n \in 1..MaxLines}

\* the receipts in the database: of this ticket or another, validated or not
ReturnPickings ==
    UNION {[1..n -> [origin : {"T1", "T2"}, state : {"assigned", "done"},
                     moves : UNION {[1..k -> {mv \in [product_id : Products,
                                                       product_uom_qty : 1..MaxReturnQty,
                                                       quantity : 1..MaxReturnQty] :
                                                 mv.quantity = mv.product_uom_qty}] :
                                    k \in 1..MaxReturnMoves}]] :
           n \in 0..MaxReturnPickings}

RECURSIVE SumMoves(_, _)
SumMoves(moves, pid) ==
    IF moves = <<>> THEN 0
    ELSE (IF Head(moves).product_id = pid THEN Head(moves).quantity ELSE 0)
         + SumMoves(Tail(moves), pid)

\* returned_qty_by_product over the receipts with this origin in state done
RECURSIVE ReturnedQtyByProduct(_, _, _)
ReturnedQtyByProduct(pks, ref, pid) ==
    IF pks = <<>> THEN 0
    ELSE (IF Head(pks).origin = ref /\ Head(pks).state = "done"
          THEN SumMoves(Head(pks).moves, pid) ELSE 0)
         + ReturnedQtyByProduct(Tail(pks), ref, pid)

\* the loop over order.lines from line k on, returned being what is still to be
\* deducted for each product
RECURSIVE LinesData(_, _, _)
LinesData(lines, k, returned) ==
    IF k > Len(lines) THEN <<>>
    ELSE LET pid == lines[k].product_id
             original_qty == lines[k].qty
             returned_so_far == returned[pid]
             remaining_qty == Max({0, original_qty - returned_so_far})
             deducted == original_qty - remaining_qty
             rest == LinesData(lines, k + 1,
                               [returned EXCEPT ![pid] = Max({0, returned_so_far - deducted})])
         IN  IF remaining_qty > 0
             THEN <<[id |-> k, product_id |-> pid, qty |-> original_qty,
                     remaining_qty |-> remaining_qty]>> \o rest
             ELSE rest

\* get_partner_tickets for the order "T1"
GetPartnerTickets(ps) ==
    [ps EXCEPT !.op = "get_partner_tickets", !.result = "ok",
               !.tickets = LinesData(ps.lines, 1,
                               [pid \in Products |-> ReturnedQtyByProduct(ps.pickings, "T1", pid)])]

PosGetPartnerTickets ==
    /\ pos_session' = GetPartnerTickets(pos_session)
    /\ PosUnchanged

\* a receipt waiting is validated
PosReturnDone ==
    \E i \in 1..Len(pos_session.pickings) :
        /\ pos_session.pickings[i].state = "assigned"
        /\ pos_session' = [pos_session EXCEPT !.pickings[i].state = "done",
                                              !.op = "_action_done", !.result = "ok",
                                              !.tickets = <<>>]
        /\ PosUnchanged

InitTickets ==
    /\ InitPos
    /\ pos_session \in {[NoPos EXCEPT !.lines = l, !.pickings = pk] :
                           l \in OrderLines, pk \in ReturnPickings}

NextTickets == PosGetPartnerTickets \/ PosReturnDone

SpecTickets == InitTickets /\ [][NextTickets]_vars

RECURSIVE SumLines(_, _)
SumLines(lines, pid) ==
    IF lines = <<>> THEN 0
    ELSE (IF Head(lines).product_id = pid THEN Head(lines).qty ELSE 0)
         + SumLines(Tail(lines), pid)

RECURSIVE SumRemaining(_, _)
SumRemaining(tickets, pid) ==
    IF tickets = <<>> THEN 0
    ELSE (IF Head(tickets).product_id = pid THEN Head(tickets).remaining_qty ELSE 0)
         + SumRemaining(Tail(tickets), pid)

\* what has been returned of product pid on ticket "T1"
Returned(pid) ==
    ReturnedQtyByProduct(pos_session.pickings, "T1", pid)

\* C33: each reported line's remaining quantity lies between 0 and the line's
\* quantity, and over the lines of one product the remaining quantities add up
\* to the ordered total less the returned total, or to 0 when more was returned,
\* whatever the line quantities
C33_RemainingQuantities ==
    pos_session.op = "get_partner_tickets" =>
        /\ \A i \in 1..Len(pos_session.tickets) :
               /\ pos_session.tickets[i].remaining_qty >= 0
               /\ pos_session.tickets[i].remaining_qty <= pos_session.tickets[i].qty
        /\ \A pid \in Products :
               SumRemaining(pos_session.tickets, pid)
                   = Max({0, SumLines(pos_session.lines, pid) - Returned(pid)})
====
